---- MODULE Spec2Model ----
(***************************************************************************)
(* Model of the workflow dependency-graph execution engine of              *)
(* SalesWorkflow: ParallelWorkflowExecutor (server/utils/                  *)
(* parallel-executor.ts) and the workflow routes that save a workflow and  *)
(* run it (server/routes/workflows.ts).                                    *)
(*                                                                         *)
(* JavaScript values are modelled as tagged records so that null, "",      *)
(* arrays and objects stay distinguishable:                                *)
(*   k  the kind: "undefined" (the key is absent), "null", "string",       *)
(*      "array", "object";                                                 *)
(*   s  the text of a string;  a  the items of an array;                   *)
(*   o  the own properties (InnerKeys -> Nat, 0 = no such property)      *)
(*      of an object, or the extra properties Object.assign put on an      *)
(*      array.                                                             *)
(* A result record is a function Keys -> value.                            *)
(***************************************************************************)
EXTENDS Integers, Sequences, FiniteSets, TLC

\* ------------------------------------------------------------------ bounds
\* Largest number of steps in a workflow.
MaxSteps == 3
\* Longest dependsOn list of a step.
MaxDeps == 2
\* Largest number of dependsOn entries over a whole workflow.
MaxEdges == 2
\* Number of dependencies merged in MergeSpec.
MergeDeps == 3
\* Longest step list handed to the inspector over the whole catalogue.
MaxFlow == 3
\* The longest workflow that overlapping step requests are made for.
MaxRace == 2
\* Number of step requests that may be in flight at once.
MaxRequests == 2

\* Instance ids in list order, and an id that names no step of the list.
IdSeq == <<"A", "B", "C", "D", "E", "F", "G">>
Ghost == "Z"
Ids(n) == {IdSeq[i] : i \in 1..n}

\* ------------------------------------------------------------------ values
Keys == {"status", "error", "data"}
InnerKeys == {"a", "b"}

NoProps == [p \in InnerKeys |-> 0]
Undef == [k |-> "undefined", s |-> "", a |-> <<>>, o |-> NoProps]
Null == [k |-> "null", s |-> "", a |-> <<>>, o |-> NoProps]
Str(x) == [k |-> "string", s |-> x, a |-> <<>>, o |-> NoProps]
Arr(q) == [k |-> "array", s |-> "", a |-> q, o |-> NoProps]
Obj(f) == [k |-> "object", s |-> "", a |-> <<>>, o |-> f]

\* JavaScript truthiness (the `!x` and `x || y` tests of gatherInputs).
Truthy(v) == v.k \in {"array", "object"} \/ (v.k = "string" /\ v.s # "")

EmptyRecord == [key \in Keys |-> Undef]
\* node.result: undefined until the step settles, then a record.
NoResult == [def |-> FALSE, f |-> EmptyRecord]
Result(f) == [def |-> TRUE, f |-> f]

\* The record the catch block of executeStep stores.
ErrorRecord(msg) ==
    [key \in Keys |->
        CASE key = "status" -> Str("error")
          [] key = "error" -> Str(msg)
          [] OTHER -> Undef]

\* The record simulateExecution returns (its status field; the descriptive
\* fields moduleId, moduleName, config, output, executedAt are not merged
\* with anything the model tracks).
simulateExecution == [key \in Keys |-> IF key = "status" THEN Str("completed") ELSE Undef]

\* What a module executor may return: a record.
ModuleResults ==
    { [key \in Keys |->
          CASE key = "status" -> Str("completed")
            [] key = "data" -> d
            [] OTHER -> Undef] : d \in {Arr(<<"p1">>), Str("none")} }

\* ------------------------------------------------------------------ steps
Range(q) == {q[i] : i \in 1..Len(q)}

NoRepeat(q) == \A i, j \in 1..Len(q) : i # j => q[i] # q[j]

SeqsUpTo(S, n) == UNION {[1..m -> S] : m \in 0..n}

\* dependsOn lists: an ordered set of ids, of steps of the list or not.
DepLists(n) == {q \in SeqsUpTo(Ids(n) \cup {Ghost}, MaxDeps) : NoRepeat(q)}

\* The dependsOn lists of the first i of n steps, with at most budget
\* entries in all.
RECURSIVE DepChoices(_, _, _)
DepChoices(n, i, budget) ==
    IF i = 0 THEN {<<>>}
    ELSE UNION { {Append(rest, d) : rest \in DepChoices(n, i - 1, budget - Len(d))} :
                 d \in {q \in DepLists(n) : Len(q) <= budget} }

\* Step lists with unique instanceIds (the data model's Step).
StepLists ==
    UNION { { [i \in 1..n |-> [instanceId |-> IdSeq[i], dependsOn |-> d[i]]] :
                d \in DepChoices(n, n, MaxEdges) } :
            n \in 0..MaxSteps }

\* The request bodies of RouteSpec: every dependsOn names a step of the body.
RouteBodies ==
    {l \in StepLists : \A i \in 1..Len(l) : Ghost \notin Range(l[i].dependsOn)}

InstanceIds(list) == {list[i].instanceId : i \in 1..Len(list)}

StepOf(list, id) == list[CHOOSE i \in 1..Len(list) : list[i].instanceId = id]

\* ------------------------------------------------------------ gatherInputs
\* An assign in which a property the target has is kept.
ObjectAssign_KeepFirst(target, source) ==
    [p \in InnerKeys |-> IF target[p] # 0 THEN target[p] ELSE source[p]]

\* Object.assign(target, source) on the own properties.
ObjectAssign(target, source) ==
    [p \in InnerKeys |-> IF source[p] # 0 THEN source[p] ELSE target[p]]

\* One iteration of the Object.keys(depNode.result).forEach body: m is
\* mergedInput[key] before it, v is depNode.result[key]. thrown marks the
\* TypeError of calling push on a value that has no push.
MergeKey(m, v) ==
    IF v.k = "array"
    THEN IF ~Truthy(m) THEN [thrown |-> FALSE, m |-> Arr(v.a)]
         ELSE IF m.k = "array" THEN [thrown |-> FALSE, m |-> [m EXCEPT !.a = m.a \o v.a]]
         ELSE [thrown |-> TRUE, m |-> m]
    ELSE IF v.k = "object"
    THEN IF ~Truthy(m) THEN [thrown |-> FALSE, m |-> Obj(ObjectAssign(NoProps, v.o))]
         ELSE IF m.k \in {"object", "array"}
              THEN [thrown |-> FALSE, m |-> [m EXCEPT !.o = ObjectAssign(m.o, v.o)]]
              ELSE [thrown |-> FALSE, m |-> m]
    ELSE IF m.k = "undefined" THEN [thrown |-> FALSE, m |-> v]
         ELSE [thrown |-> FALSE, m |-> m]

\* The forEach over the keys of one dependency's result: keys the result
\* does not have are not visited.
MergeResult(merged, r) ==
    LET each == [key \in Keys |->
                    IF r[key].k = "undefined"
                    THEN [thrown |-> FALSE, m |-> merged[key]]
                    ELSE MergeKey(merged[key], r[key])]
    IN [thrown |-> \E key \in Keys : each[key].thrown,
        f |-> [key \in Keys |-> each[key].m]]

\* this.graph.nodes.get(depId)?.result
NodeResult(res, id) == IF id \in DOMAIN res THEN res[id] ELSE NoResult

\* The forEach that keeps error records out of allResults.
RECURSIVE MergeFrom_SkipErrors(_, _, _, _)
MergeFrom_SkipErrors(dependencies, res, i, acc) ==
    IF i > Len(dependencies) \/ acc.thrown THEN acc
    ELSE LET d == NodeResult(res, dependencies[i])
         IN IF ~d.def THEN MergeFrom_SkipErrors(dependencies, res, i + 1, acc)
            ELSE LET step == MergeResult(acc.f, d.f)
                 IN MergeFrom_SkipErrors(dependencies, res, i + 1,
                        [thrown |-> step.thrown, f |-> step.f,
                         all |-> IF d.f["status"] = Str("error") THEN acc.all
                                 ELSE Append(acc.all, d.f)])

\* dependencies.forEach(depId => ...) from position i on.
RECURSIVE MergeFrom(_, _, _, _)
MergeFrom(dependencies, res, i, acc) ==
    IF i > Len(dependencies) \/ acc.thrown THEN acc
    ELSE LET d == NodeResult(res, dependencies[i])
         IN IF ~d.def THEN MergeFrom(dependencies, res, i + 1, acc)
            ELSE LET step == MergeResult(acc.f, d.f)
                 IN MergeFrom(dependencies, res, i + 1,
                              [thrown |-> step.thrown, f |-> step.f,
                               all |-> Append(acc.all, d.f)])

\* What gatherInputs hands to the module: null, a dependency's own record,
\* a merged record with _sources and _allResults, or a thrown TypeError.
NullInput == [kind |-> "null", f |-> EmptyRecord, sources |-> <<>>, all |-> <<>>]
RecordInput(f) == [kind |-> "record", f |-> f, sources |-> <<>>, all |-> <<>>]
MergedInput(f, sources, all) == [kind |-> "merged", f |-> f, sources |-> sources, all |-> all]
ThrownInput == [kind |-> "TypeError", f |-> EmptyRecord, sources |-> <<>>, all |-> <<>>]
NoInput == [kind |-> "none", f |-> EmptyRecord, sources |-> <<>>, all |-> <<>>]

\* gatherInputs without the single-dependency return.
gatherInputs_AlwaysMerge(dependencies, res) ==
    IF Len(dependencies) = 0 THEN NullInput
    ELSE LET acc == MergeFrom(dependencies, res, 1,
                              [thrown |-> FALSE, f |-> EmptyRecord, all |-> <<>>])
         IN IF acc.thrown THEN ThrownInput
            ELSE MergedInput(acc.f, dependencies, acc.all)

gatherInputs(dependencies, res) ==
    IF Len(dependencies) = 0 THEN NullInput
    ELSE IF Len(dependencies) = 1
    THEN LET d == NodeResult(res, dependencies[1])
         IN IF d.def THEN RecordInput(d.f) ELSE NullInput
    ELSE LET acc == MergeFrom(dependencies, res, 1,
                              [thrown |-> FALSE, f |-> EmptyRecord, all |-> <<>>])
         IN IF acc.thrown THEN ThrownInput
            ELSE MergedInput(acc.f, dependencies, acc.all)

\* A merge whose mergedInput[key] is the first dependency's own array or
\* object: push and Object.assign then write into that stored result.
StoredAfterMerge_Aliased(dependencies, res) ==
    LET acc == MergeFrom(dependencies, res, 1,
                         [thrown |-> FALSE, f |-> EmptyRecord, all |-> <<>>])
        holders == {i \in 1..Len(dependencies) : NodeResult(res, dependencies[i]).def}
    IN IF Len(dependencies) < 2 \/ acc.thrown \/ holders = {} THEN res
       ELSE LET first == dependencies[CHOOSE i \in holders : \A j \in holders : i <= j]
            IN [res EXCEPT ![first] =
                   Result([key \in Keys |->
                              IF res[first].f[key].k \in {"array", "object"}
                              THEN acc.f[key] ELSE res[first].f[key]])]

\* The stored results after gatherInputs ran: mergedInput[key] starts as a
\* fresh [] or {} that push(...) and Object.assign copy into, so no
\* dependency's result is written to.
StoredAfterMerge(dependencies, res) == res

\* ------------------------------------------------------------------ state
VARIABLES
    pc,         \* where execute() is: "idle" (no executor yet), "execute"
                \* (constructed, loop about to run), "awaitAll" (in
                \* Promise.all), "sleep" (in the 100 ms poll), "returned",
                \* "deadlock" (the deadlock error was thrown)
    steps,      \* this.steps
    status,     \* node.status of every node of graph.nodes
    result,     \* node.result of every node
    completed,  \* graph.completed
    running,    \* graph.running
    at,         \* where each executeStep call is: "none", "getById",
                \* "executeModule", "settled"
    input,      \* the inputData each step's module was called with
    batch,      \* the steps of the executions array being awaited
    results,    \* the Map execute() returned
    stored,     \* the workflow in WorkflowStorage
    launched,   \* the batches execute() has launched so far, in order
    body,       \* the steps of the last POST/PUT request body
    order,      \* graph.completed in insertion order (a Set iterates in it)
    inDegree,   \* analyzeParallelism: the inDegree Map
    remaining,  \* analyzeParallelism: the remaining Set
    levels,     \* analyzeParallelism: the levels array
    analysis,   \* analyzeParallelism: where it is and what it returned
    modules,    \* the capability list handed to the inspector
    validation, \* validateWorkflow: where it is and what it returned
    compatibility, \* getModuleCompatibility: its two modules, where it is
                \* and what it returned
    optimal,    \* suggestOptimalOrder: its moduleIds, where it is and what
                \* it returned
    autofix,    \* autoFixWorkflowWithHumanModules: where it is and what it
                \* returned
    execution,  \* the execution record in ExecutionStorage
    requests,   \* the POST /api/executions/:id/step requests: where each
                \* handler is, the record it read, its module's result and
                \* its response status
    invoked     \* the indexes of the steps whose module the step requests
                \* have called, in call order

\* The state of one analyzeParallelism call and of one inspector call.
analyzer == <<inDegree, remaining, levels, analysis>>
advice == <<compatibility, optimal, autofix>>
inspector == <<modules, validation, advice>>
stepper == <<execution, requests, invoked>>

vars == <<pc, steps, status, result, completed, running, at, input, batch, launched,
          results, stored, body, order, analyzer, inspector, stepper>>

\* No analyzeParallelism call and no inspector call has been made.
NoAnalysis == [pc |-> "idle", maxParallelism |-> 0, independentPaths |-> 0]
NoValidation ==
    [pc |-> "idle", isValid |-> FALSE, errors |-> <<>>, warnings |-> <<>>,
     suggestedConnections |-> <<>>, dependencyGraph |-> <<>>]

AnalyzerIdle ==
    /\ inDegree = << >>
    /\ remaining = {}
    /\ levels = <<>>
    /\ analysis = NoAnalysis

NoCompatibility ==
    [pc |-> "idle", moduleA |-> <<>>, moduleB |-> <<>>, compatible |-> FALSE, score |-> 0]
NoOrder == [pc |-> "idle", moduleIds |-> <<>>, order |-> <<>>, reasoning |-> <<>>]
NoFix == [pc |-> "idle", fixedSteps |-> <<>>, changes |-> <<>>]

\* No getModuleCompatibility, suggestOptimalOrder or auto-fix call has been
\* made.
AdviceIdle ==
    /\ compatibility = NoCompatibility
    /\ optimal = NoOrder
    /\ autofix = NoFix

InspectorIdle ==
    /\ modules = <<>>
    /\ validation = NoValidation
    /\ AdviceIdle

NoWorkflow == [exists |-> FALSE, steps |-> <<>>]

\* No execution record, no module result, no step request.
NoExecution == [exists |-> FALSE, status |-> "", currentStepIndex |-> 0, results |-> << >>]
NoOutcome == [status |-> "", moduleId |-> ""]
NoRequest == [pc |-> "idle", execution |-> NoExecution, result |-> NoOutcome, response |-> 0]

\* The step requests, which are handled one by one or overlap.
Requests == 1..MaxRequests

StepperIdle ==
    /\ execution = NoExecution
    /\ requests = [r \in Requests |-> NoRequest]
    /\ invoked = <<>>

\* new ParallelWorkflowExecutor(list): every node pending, both sets empty.
Construct(list) ==
    /\ steps' = list
    /\ status' = [id \in InstanceIds(list) |-> "pending"]
    /\ result' = [id \in InstanceIds(list) |-> NoResult]
    /\ completed' = {}
    /\ running' = {}
    /\ at' = [id \in InstanceIds(list) |-> "none"]
    /\ input' = [id \in InstanceIds(list) |-> NoInput]
    /\ batch' = {}
    /\ launched' = <<>>
    /\ results' = << >>
    /\ order' = <<>>

\* The state right after the constructor ran on some step list.
Init ==
    /\ pc = "execute"
    /\ steps \in StepLists
    /\ status = [id \in InstanceIds(steps) |-> "pending"]
    /\ result = [id \in InstanceIds(steps) |-> NoResult]
    /\ completed = {}
    /\ running = {}
    /\ at = [id \in InstanceIds(steps) |-> "none"]
    /\ input = [id \in InstanceIds(steps) |-> NoInput]
    /\ batch = {}
    /\ launched = <<>>
    /\ results = << >>
    /\ stored = NoWorkflow
    /\ body = <<>>
    /\ order = <<>>
    /\ AnalyzerIdle
    /\ InspectorIdle
    /\ StepperIdle

\* ------------------------------------------------------------------ execute
\* node.step.dependsOn || []
DependsOn(id) == StepOf(steps, id).dependsOn

\* getReadySteps that counts a dependency only when its node is completed, not
\* when it failed.
getReadySteps_FailedBlocks ==
    {id \in DOMAIN status :
        /\ status[id] = "pending"
        /\ \A i \in 1..Len(DependsOn(id)) :
              /\ DependsOn(id)[i] \in DOMAIN status
              /\ status[DependsOn(id)[i]] = "completed"}

\* getReadySteps without the dependency test.
getReadySteps_IgnoreDeps == {id \in DOMAIN status : status[id] = "pending"}

\* getReadySteps that hands out one ready node at a time, the first in list
\* order.
getReadySteps_OneAtATime ==
    LET ready == {i \in 1..Len(steps) :
                     /\ status[steps[i].instanceId] = "pending"
                     /\ \A j \in 1..Len(steps[i].dependsOn) :
                           steps[i].dependsOn[j] \in completed}
    IN {steps[i].instanceId : i \in {k \in ready : \A m \in ready : k <= m}}

\* getReadySteps that hands a failed node out again.
getReadySteps_RetryFailed ==
    {id \in DOMAIN status :
        /\ status[id] \in {"pending", "failed"}
        /\ \A i \in 1..Len(DependsOn(id)) : DependsOn(id)[i] \in completed}

\* getReadySteps: the pending nodes whose every dependency is in completed.
getReadySteps ==
    {id \in DOMAIN status :
        /\ status[id] = "pending"
        /\ \A i \in 1..Len(DependsOn(id)) : DependsOn(id)[i] \in completed}

\* A collection that keeps the results of the completed nodes only.
CollectResults_OnlyCompleted ==
    [id \in {n \in DOMAIN result : result[n].def /\ status[n] = "completed"} |->
        result[id].f]

\* The results Map filled after the loop: the nodes with a truthy result.
CollectResults ==
    [id \in {n \in DOMAIN result : result[n].def} |-> result[id].f]

\* getStats with pending computed from completed alone.
getStats_PendingIgnoresRunning ==
    [total |-> Len(steps),
     completed |-> Cardinality(completed),
     running |-> Cardinality(running),
     pending |-> Len(steps) - Cardinality(completed)]

\* getStats(): the sizes of this.steps and of the two sets.
getStats ==
    [total |-> Len(steps),
     completed |-> Cardinality(completed),
     running |-> Cardinality(running),
     pending |-> Len(steps) - Cardinality(completed) - Cardinality(running)]

\* The branch that polls whatever graph.running holds.
NoneReady_AlwaysWait == "sleep"

\* readySteps is empty: the deadlock error when nothing is running, the
\* 100 ms wait otherwise.
NoneReady == IF running = {} THEN "deadlock" ELSE "sleep"

\* A loop that goes on as soon as one execution of the batch has settled.
ExecuteLoop_FirstSettled ==
    /\ \/ pc = "execute"
       \/ pc = "awaitAll" /\ \E id \in batch : at[id] = "settled"
       \/ pc = "sleep"
    /\ IF ~(Cardinality(completed) < Len(steps))
       THEN /\ pc' = "returned"
            /\ results' = CollectResults
            /\ UNCHANGED <<status, running, at, batch, launched>>
       ELSE LET readySteps == getReadySteps
            IN IF readySteps = {}
               THEN /\ pc' = NoneReady
                    /\ UNCHANGED <<status, running, at, batch, launched, results>>
               ELSE /\ status' = [id \in DOMAIN status |->
                                    IF id \in readySteps THEN "running" ELSE status[id]]
                    /\ running' = running \cup readySteps
                    /\ at' = [id \in DOMAIN at |->
                                IF id \in readySteps THEN "getById" ELSE at[id]]
                    /\ batch' = (batch \cap running) \cup readySteps
                    /\ launched' = Append(launched, readySteps)
                    /\ pc' = "awaitAll"
                    /\ UNCHANGED results
    /\ UNCHANGED <<steps, result, completed, input, stored, body, order, analyzer, inspector, stepper>>

\* One pass of the while loop of execute(), from its test up to the next
\* await, the return or the throw. It runs when execute() is called, when
\* Promise.all resolves (every execution of the batch settled) and when the
\* poll timer fires. Launching runs each executeStep up to its first await:
\* the node is running and in graph.running.
ExecuteLoop ==
    /\ \/ pc = "execute"
       \/ pc = "awaitAll" /\ \A id \in batch : at[id] = "settled"
       \/ pc = "sleep"
    /\ IF ~(Cardinality(completed) < Len(steps))
       THEN /\ pc' = "returned"
            /\ results' = CollectResults
            /\ UNCHANGED <<status, running, at, batch, launched>>
       ELSE LET readySteps == getReadySteps
            IN IF readySteps = {}
               THEN /\ pc' = NoneReady
                    /\ UNCHANGED <<status, running, at, batch, launched, results>>
               ELSE /\ status' = [id \in DOMAIN status |->
                                    IF id \in readySteps THEN "running" ELSE status[id]]
                    /\ running' = running \cup readySteps
                    /\ at' = [id \in DOMAIN at |->
                                IF id \in readySteps THEN "getById" ELSE at[id]]
                    /\ batch' = readySteps
                    /\ launched' = Append(launched, readySteps)
                    /\ pc' = "awaitAll"
                    /\ UNCHANGED results
    /\ UNCHANGED <<steps, result, completed, input, stored, body, order, analyzer, inspector, stepper>>

\* A catch block that records the error and leaves the sets alone.
Fail_NotCompleted(id, msg) ==
    /\ status' = [status EXCEPT ![id] = "failed"]
    /\ result' = [result EXCEPT ![id] = Result(ErrorRecord(msg))]
    /\ at' = [at EXCEPT ![id] = "settled"]
    /\ UNCHANGED <<running, completed, order>>

\* The catch block of executeStep.
Fail(id, msg) ==
    /\ status' = [status EXCEPT ![id] = "failed"]
    /\ result' = [result EXCEPT ![id] = Result(ErrorRecord(msg))]
    /\ running' = running \ {id}
    /\ completed' = completed \cup {id}
    /\ order' = Append(order, id)
    /\ at' = [at EXCEPT ![id] = "settled"]

\* A completion that leaves the step in graph.running.
Complete_KeepRunning(id, r) ==
    /\ status' = [status EXCEPT ![id] = "completed"]
    /\ result' = [result EXCEPT ![id] = Result(r)]
    /\ completed' = completed \cup {id}
    /\ order' = Append(order, id)
    /\ at' = [at EXCEPT ![id] = "settled"]
    /\ UNCHANGED running

\* The tail of the try block of executeStep.
Complete(id, r) ==
    /\ status' = [status EXCEPT ![id] = "completed"]
    /\ result' = [result EXCEPT ![id] = Result(r)]
    /\ running' = running \ {id}
    /\ completed' = completed \cup {id}
    /\ order' = Append(order, id)
    /\ at' = [at EXCEPT ![id] = "settled"]

\* ModuleStorage.getById found no module: executeStep throws and catches.
ModuleNotFound(id) ==
    /\ at[id] = "getById"
    /\ Fail(id, "Module not found")
    /\ UNCHANGED <<pc, steps, input, batch, launched, results, stored, body, analyzer, inspector, stepper>>

\* The position of id in q (0 when it is not there).
IndexIn(q, id) == IF id \in Range(q) THEN CHOOSE i \in 1..Len(q) : q[i] = id ELSE 0

\* The entries of q sorted by their position in graph.completed.
RECURSIVE ByCompletion(_)
ByCompletion(q) ==
    IF q = <<>> THEN <<>>
    ELSE LET first == CHOOSE i \in 1..Len(q) :
                          \A j \in 1..Len(q) : IndexIn(order, q[i]) <= IndexIn(order, q[j])
         IN <<q[first]>> \o
            ByCompletion([j \in 1..(Len(q) - 1) |-> IF j < first THEN q[j] ELSE q[j + 1]])

\* A step that merges its dependencies in the order they completed.
ModuleFound_CompletionOrder(id) ==
    /\ at[id] = "getById"
    /\ LET inputData == gatherInputs(ByCompletion(DependsOn(id)), result)
       IN IF inputData.kind = "TypeError"
          THEN /\ Fail(id, "push is not a function")
               /\ UNCHANGED input
          ELSE /\ input' = [input EXCEPT ![id] = inputData]
               /\ at' = [at EXCEPT ![id] = "executeModule"]
               /\ UNCHANGED <<status, result, running, completed, order>>
    /\ UNCHANGED <<pc, steps, batch, launched, results, stored, body, analyzer, inspector, stepper>>

\* ModuleStorage.getById found the module: the inputs are gathered and the
\* module is called, unless gathering throws.
ModuleFound(id) ==
    /\ at[id] = "getById"
    /\ LET inputData == gatherInputs(DependsOn(id), result)
       IN IF inputData.kind = "TypeError"
          THEN /\ Fail(id, "push is not a function")
               /\ UNCHANGED input
          ELSE /\ input' = [input EXCEPT ![id] = inputData]
               /\ at' = [at EXCEPT ![id] = "executeModule"]
               /\ result' = StoredAfterMerge(DependsOn(id), result)
               /\ UNCHANGED <<status, running, completed, order>>
    /\ UNCHANGED <<pc, steps, batch, launched, results, stored, body, analyzer, inspector, stepper>>

\* executeModule or simulateExecution returned r.
ModuleReturns(id, r) ==
    /\ at[id] = "executeModule"
    /\ Complete(id, r)
    /\ UNCHANGED <<pc, steps, input, batch, launched, results, stored, body, analyzer, inspector, stepper>>

\* executeModule threw.
ModuleThrows(id) ==
    /\ at[id] = "executeModule"
    /\ Fail(id, "module failed")
    /\ UNCHANGED <<pc, steps, input, batch, launched, results, stored, body, analyzer, inspector, stepper>>

Next ==
    \/ ExecuteLoop
    \/ \E id \in DOMAIN at : ModuleNotFound(id)
    \/ \E id \in DOMAIN at : ModuleFound(id)
    \/ \E id \in DOMAIN at :
          \E r \in ModuleResults \cup {simulateExecution} : ModuleReturns(id, r)
    \/ \E id \in DOMAIN at : ModuleThrows(id)

Spec == Init /\ [][Next]_vars

\* Every module call returns or throws and the event loop runs every
\* continuation that is ready.
FairSpec == Spec /\ WF_vars(Next)

\* executeModule never settles: its promise stays pending and so does the
\* executeStep call that awaits it.
ModuleHangs(id) ==
    /\ at[id] = "executeModule"
    /\ at' = [at EXCEPT ![id] = "hung"]
    /\ UNCHANGED <<pc, steps, status, result, completed, running, input, batch, launched,
                   results, stored, body, order, analyzer, inspector, stepper>>

\* A run in which a timer fails a hung call with a timeout error.
HangNext_WithTimeout ==
    \/ Next
    \/ \E id \in DOMAIN at : ModuleHangs(id)
    \/ \E id \in DOMAIN at :
          /\ at[id] = "hung"
          /\ Fail(id, "timeout")
          /\ UNCHANGED <<pc, steps, input, batch, launched, results, stored, body,
                         analyzer, inspector, stepper>>

\* A run in which module calls may also hang.
HangNext == Next \/ \E id \in DOMAIN at : ModuleHangs(id)

HangSpec == Init /\ [][HangNext]_vars

\* ------------------------------------------------------------------ routes
\* steps.map(step => ({instanceId, moduleId, config, llm})) of POST / and
\* PUT /:id: the saved step keeps no dependsOn, which the executor reads as
\* the empty list (step.dependsOn || []).
processedSteps(reqSteps) ==
    [i \in 1..Len(reqSteps) |->
        [instanceId |-> reqSteps[i].instanceId, dependsOn |-> <<>>]]

\* POST /api/workflows
PostWorkflow(reqSteps) ==
    /\ pc = "idle"
    /\ ~stored.exists
    /\ stored' = [exists |-> TRUE, steps |-> processedSteps(reqSteps)]
    /\ body' = reqSteps
    /\ UNCHANGED <<pc, steps, status, result, completed, running, at, input,
                   batch, launched, results, order, analyzer, inspector, stepper>>

\* PUT /api/workflows/:id
PutWorkflow(reqSteps) ==
    /\ pc = "idle"
    /\ stored.exists
    /\ stored' = [stored EXCEPT !.steps = processedSteps(reqSteps)]
    /\ body' = reqSteps
    /\ UNCHANGED <<pc, steps, status, result, completed, running, at, input,
                   batch, launched, results, order, analyzer, inspector, stepper>>

\* POST /api/workflows/:id/execute-parallel, up to the call of execute().
ExecuteParallel ==
    /\ pc = "idle"
    /\ stored.exists
    /\ Construct(stored.steps)
    /\ pc' = "execute"
    /\ UNCHANGED <<stored, body, analyzer, inspector, stepper>>

\* The server before any request.
RouteInit ==
    /\ pc = "idle"
    /\ steps = <<>>
    /\ status = << >>
    /\ result = << >>
    /\ completed = {}
    /\ running = {}
    /\ at = << >>
    /\ input = << >>
    /\ batch = {}
    /\ launched = <<>>
    /\ results = << >>
    /\ stored = NoWorkflow
    /\ body = <<>>
    /\ order = <<>>
    /\ AnalyzerIdle
    /\ InspectorIdle
    /\ StepperIdle

RouteNext ==
    \/ \E reqSteps \in RouteBodies : PostWorkflow(reqSteps)
    \/ \E reqSteps \in RouteBodies : PutWorkflow(reqSteps)
    \/ ExecuteParallel
    \/ ExecuteLoop
    \/ \E id \in DOMAIN at : ModuleNotFound(id)
    \/ \E id \in DOMAIN at : ModuleFound(id)
    \/ \E id \in DOMAIN at :
          \E r \in ModuleResults \cup {simulateExecution} : ModuleReturns(id, r)
    \/ \E id \in DOMAIN at : ModuleThrows(id)

RouteSpec == RouteInit /\ [][RouteNext]_vars

\* ------------------------------------------------------------------ merging
\* Values a module may put under "data": absent, null, strings (the empty
\* one is falsy), arrays and objects.
DataValues ==
    {Undef, Null, Str(""), Str("x"), Str("y"),
     Arr(<<>>), Arr(<<"p1">>), Arr(<<"p2", "p3">>),
     Obj(NoProps), Obj([a |-> 1, b |-> 0]), Obj([a |-> 2, b |-> 1]), Obj([a |-> 0, b |-> 2])}

MergeRecords ==
    { [key \in Keys |->
          CASE key = "status" -> st
            [] key = "data" -> d
            [] OTHER -> Undef] : st \in {Str("completed"), Str("ok")}, d \in DataValues }

\* k independent steps and one step that depends on all of them, in order.
FanIn(k) ==
    [i \in 1..(k + 1) |->
        [instanceId |-> IdSeq[i],
         dependsOn |-> IF i <= k THEN <<>> ELSE SubSeq(IdSeq, 1, k)]]

\* A run of a fan-in workflow at the point where the dependencies have
\* completed with records of MergeRecords and the dependent step has been
\* launched.
MergeInit ==
    \E k \in 2..MergeDeps :
        /\ steps = FanIn(k)
        /\ pc = "awaitAll"
        /\ status = [id \in Ids(k + 1) |-> IF id = IdSeq[k + 1] THEN "running" ELSE "completed"]
        /\ \E returned \in [Ids(k) -> MergeRecords] :
              result = [id \in Ids(k + 1) |->
                           IF id \in Ids(k) THEN Result(returned[id]) ELSE NoResult]
        /\ completed = Ids(k)
        /\ running = {IdSeq[k + 1]}
        /\ at = [id \in Ids(k + 1) |-> IF id = IdSeq[k + 1] THEN "getById" ELSE "settled"]
        /\ input = [id \in Ids(k + 1) |-> IF id = IdSeq[k + 1] THEN NoInput ELSE NullInput]
        /\ batch = {IdSeq[k + 1]}
        /\ launched = <<Ids(k), {IdSeq[k + 1]}>>
        /\ results = << >>
        /\ stored = NoWorkflow
        /\ body = <<>>
        /\ order = SubSeq(IdSeq, 1, k)
        /\ AnalyzerIdle
        /\ InspectorIdle
        /\ StepperIdle

MergeNext == \E id \in DOMAIN at : ModuleFound(id)

MergeSpec == MergeInit /\ [][MergeNext]_vars

\* k independent steps and two steps that each depend on all of them, in
\* the same order.
FanInTwice(k) ==
    [i \in 1..(k + 2) |->
        [instanceId |-> IdSeq[i],
         dependsOn |-> IF i <= k THEN <<>> ELSE SubSeq(IdSeq, 1, k)]]

\* A run of such a workflow at the point where the dependencies have
\* completed with records of MergeRecords and the two dependent steps have
\* been launched in one batch.
ShareInit ==
    \E k \in 2..MaxDeps :
        LET dependents == {IdSeq[k + 1], IdSeq[k + 2]}
        IN /\ steps = FanInTwice(k)
           /\ pc = "awaitAll"
           /\ status = [id \in Ids(k + 2) |-> IF id \in dependents THEN "running" ELSE "completed"]
           /\ \E returned \in [Ids(k) -> MergeRecords] :
                 result = [id \in Ids(k + 2) |->
                              IF id \in Ids(k) THEN Result(returned[id]) ELSE NoResult]
           /\ completed = Ids(k)
           /\ running = dependents
           /\ at = [id \in Ids(k + 2) |-> IF id \in dependents THEN "getById" ELSE "settled"]
           /\ input = [id \in Ids(k + 2) |-> IF id \in dependents THEN NoInput ELSE NullInput]
           /\ batch = dependents
           /\ launched = <<Ids(k), dependents>>
           /\ results = << >>
           /\ stored = NoWorkflow
           /\ body = <<>>
           /\ order = SubSeq(IdSeq, 1, k)
           /\ AnalyzerIdle
           /\ InspectorIdle
           /\ StepperIdle

ShareNext == \E id \in DOMAIN at : ModuleFound(id)

ShareSpec == ShareInit /\ [][ShareNext]_vars

\* -------------------------------------------------------------------- batch
\* The records of modules that output a list of products (held under "data").
ProductResults ==
    { [key \in Keys |->
          CASE key = "status" -> Str("completed")
            [] key = "data" -> Arr(q)
            [] OTHER -> Undef] : q \in {<<"p1", "p2">>, <<"p3">>} }

\* Two steps with no dependency, which run in one batch, and a step that
\* depends on both, in either order.
BatchLists ==
    { [i \in 1..3 |->
          [instanceId |-> IdSeq[i], dependsOn |-> IF i <= 2 THEN <<>> ELSE d]] :
      d \in {<<"A", "B">>, <<"B", "A">>} }

\* The state right after the constructor ran on such a list.
BatchInit ==
    /\ pc = "execute"
    /\ steps \in BatchLists
    /\ status = [id \in InstanceIds(steps) |-> "pending"]
    /\ result = [id \in InstanceIds(steps) |-> NoResult]
    /\ completed = {}
    /\ running = {}
    /\ at = [id \in InstanceIds(steps) |-> "none"]
    /\ input = [id \in InstanceIds(steps) |-> NoInput]
    /\ batch = {}
    /\ launched = <<>>
    /\ results = << >>
    /\ stored = NoWorkflow
    /\ body = <<>>
    /\ order = <<>>
    /\ AnalyzerIdle
    /\ InspectorIdle
    /\ StepperIdle

BatchNext ==
    \/ ExecuteLoop
    \/ \E id \in DOMAIN at : ModuleNotFound(id)
    \/ \E id \in DOMAIN at : ModuleFound(id)
    \/ \E id \in DOMAIN at : \E r \in ProductResults : ModuleReturns(id, r)
    \/ \E id \in DOMAIN at : ModuleThrows(id)

BatchSpec == BatchInit /\ [][BatchNext]_vars

\* --------------------------------------------------------------- analysis
\* Math.max() of no argument is -Infinity, which is below every level size;
\* it is held as -1.
MinusInfinity == -1

\* steps.map(s => s.instanceId), the insertion order of the remaining Set.
IdsInOrder(list) == [i \in 1..Len(list) |-> list[i].instanceId]

\* A level that takes every remaining step, whatever its in-degree.
Level_AllRemaining(list, deg, rem) ==
    SelectSeq(IdsInOrder(list), LAMBDA id : id \in rem)

\* remaining.forEach: the remaining steps whose in-degree is 0.
Level(list, deg, rem) ==
    SelectSeq(IdsInOrder(list), LAMBDA id : id \in rem /\ deg[id] = 0)

\* (inDegree.get(id) || 1) - 1
Decrement(d) == (IF d = 0 THEN 1 ELSE d) - 1

\* A removal that leaves the in-degrees of the dependents alone.
RECURSIVE RemoveLevel_NoDecrement(_, _, _, _, _)
RemoveLevel_NoDecrement(list, level, i, deg, rem) ==
    IF i > Len(level) THEN [inDegree |-> deg, remaining |-> rem]
    ELSE RemoveLevel_NoDecrement(list, level, i + 1, deg, rem \ {level[i]})

\* level.forEach from position i on: delete the step from remaining, then
\* decrement the in-degree of every step still remaining whose dependsOn
\* includes it.
RECURSIVE RemoveLevel(_, _, _, _, _)
RemoveLevel(list, level, i, deg, rem) ==
    IF i > Len(level) THEN [inDegree |-> deg, remaining |-> rem]
    ELSE LET left == rem \ {level[i]}
             dependents == {list[j].instanceId : j \in {k \in 1..Len(list) :
                               /\ level[i] \in Range(list[k].dependsOn)
                               /\ list[k].instanceId \in left}}
         IN RemoveLevel(list, level, i + 1,
                        [id \in DOMAIN deg |->
                            IF id \in dependents THEN Decrement(deg[id]) ELSE deg[id]],
                        left)

\* Math.max(...levels.map(l => l.length))
RECURSIVE MaxLength(_, _)
MaxLength(lv, i) ==
    IF i > Len(lv) THEN MinusInfinity
    ELSE LET rest == MaxLength(lv, i + 1)
         IN IF Len(lv[i]) > rest THEN Len(lv[i]) ELSE rest

\* levels[0]?.length || 1
IndependentPaths(lv) == IF Len(lv) = 0 \/ Len(lv[1]) = 0 THEN 1 ELSE Len(lv[1])

\* The levels the while loop builds from the in-degrees deg and the
\* remaining set rem on.
RECURSIVE LevelsFrom(_, _, _)
LevelsFrom(list, deg, rem) ==
    IF rem = {} \/ Level(list, deg, rem) = <<>> THEN <<>>
    ELSE LET level == Level(list, deg, rem)
             after == RemoveLevel(list, level, 1, deg, rem)
         IN <<level>> \o LevelsFrom(list, after.inDegree, after.remaining)

\* The levels analyzeParallelism(list) returns.
analyzeParallelism(list) ==
    LevelsFrom(list,
               [id \in InstanceIds(list) |-> Len(StepOf(list, id).dependsOn)],
               InstanceIds(list))

\* analyzeParallelism(list) after its graph is built: every in-degree is the
\* length of dependsOn, every step remains, no level yet.
AnalyzeInit ==
    /\ steps \in StepLists
    /\ inDegree = [id \in InstanceIds(steps) |-> Len(StepOf(steps, id).dependsOn)]
    /\ remaining = InstanceIds(steps)
    /\ levels = <<>>
    /\ analysis = [pc |-> "loop", maxParallelism |-> 0, independentPaths |-> 0]
    /\ pc = "idle"
    /\ status = << >>
    /\ result = << >>
    /\ completed = {}
    /\ running = {}
    /\ at = << >>
    /\ input = << >>
    /\ batch = {}
    /\ launched = <<>>
    /\ results = << >>
    /\ stored = NoWorkflow
    /\ body = <<>>
    /\ order = <<>>
    /\ InspectorIdle
    /\ StepperIdle

\* One pass of the while loop that finds a level.
AnalyzeLevel ==
    /\ analysis.pc = "loop"
    /\ remaining # {}
    /\ LET level == Level(steps, inDegree, remaining)
           after == RemoveLevel(steps, level, 1, inDegree, remaining)
       IN /\ level # <<>>
          /\ levels' = Append(levels, level)
          /\ inDegree' = after.inDegree
          /\ remaining' = after.remaining
    /\ UNCHANGED <<analysis, inspector, pc, steps, status, result, completed,
                   running, at, input, batch, launched, results, stored, body, order, stepper>>

\* The loop ends, because nothing remains or because no remaining step has
\* in-degree 0 (the break), and the analysis is returned.
AnalyzeReturn ==
    /\ analysis.pc = "loop"
    /\ remaining = {} \/ Level(steps, inDegree, remaining) = <<>>
    /\ analysis' = [pc |-> "returned",
                    maxParallelism |-> MaxLength(levels, 1),
                    independentPaths |-> IndependentPaths(levels)]
    /\ UNCHANGED <<inDegree, remaining, levels, inspector, pc, steps, status,
                   result, completed, running, at, input, batch, launched, results, stored,
                   body, order, stepper>>

AnalyzeNext == AnalyzeLevel \/ AnalyzeReturn

AnalyzeSpec == AnalyzeInit /\ [][AnalyzeNext]_vars

\* The analysis is synchronous code: it runs on until it returns.
AnalyzeFairSpec == AnalyzeSpec /\ WF_vars(AnalyzeNext)

\* -------------------------------------------------------------- inspector
\* A capability: Module of types.ts. io.def is FALSE for a module stored
\* without io, category is "" for one stored without category.
NoIo == [def |-> FALSE, inputs |-> <<>>, outputs |-> <<>>]
Io(inputs, outputs) == [def |-> TRUE, inputs |-> inputs, outputs |-> outputs]
Required(t) == [type |-> t, required |-> TRUE]
Optional(t) == [type |-> t, required |-> FALSE]

\* The forms a capability list may hold each module in: as defaultModules
\* ships it (only ecommerce-scraper has io and category there) or with the
\* io and category the Module type asks for.
ModuleForms ==
    [ecommerce |->
        {[id |-> "ecommerce-scraper", io |-> Io(<<>>, <<"products">>),
          category |-> "data_collection"]},
     product |->
        {[id |-> "product-info", io |-> NoIo, category |-> ""],
         [id |-> "product-info", io |-> Io(<<Required("products")>>, <<"products">>),
          category |-> "processing"]},
     quotation |->
        {[id |-> "quotation",
          io |-> Io(<<Required("products"), Optional("customers")>>, <<"quotes">>),
          category |-> "communication"]},
     analysis |->
        {[id |-> "sales-analysis", io |-> Io(<<Required("quotes")>>, <<"analytics">>),
          category |-> "analysis"]},
     decision |->
        {[id |-> "human-decision", io |-> NoIo, category |-> ""],
         [id |-> "human-decision", io |-> Io(<<>>, <<"approval">>), category |-> "decision"]},
     manual |->
        {[id |-> "human-manual-input", io |-> Io(<<>>, <<"products", "customers">>),
          category |-> "decision"]}]

FormOrder == <<"ecommerce", "product", "quotation", "analysis", "decision", "manual">>

\* The capability lists: each module absent or in one of its forms.
RECURSIVE CapabilityListsFrom(_)
CapabilityListsFrom(i) ==
    IF i > Len(FormOrder) THEN {<<>>}
    ELSE LET rest == CapabilityListsFrom(i + 1)
         IN rest \cup {<<m>> \o r : m \in ModuleForms[FormOrder[i]], r \in rest}

CapabilityLists == CapabilityListsFrom(1)

ModuleIds ==
    {"ecommerce-scraper", "product-info", "quotation", "sales-analysis",
     "human-decision", "human-manual-input"}

\* steps.length > 5 of suggestHumanInterventionModules
ComplexThreshold == 5

Flow(q) == [i \in 1..Len(q) |-> [instanceId |-> IdSeq[i], moduleId |-> q[i]]]

\* The step lists handed to the inspector: every list of up to MaxFlow
\* steps, and the lists of ComplexThreshold + 1 steps over two modules.
FlowLists ==
    {Flow(q) : q \in SeqsUpTo(ModuleIds, MaxFlow)}
    \cup {Flow(q) : q \in [1..(ComplexThreshold + 1) -> {"ecommerce-scraper", "human-decision"}]}

\* moduleMap.has(id) and moduleMap.get(id)
Has(mods, id) == \E i \in 1..Len(mods) : mods[i].id = id
Get(mods, id) ==
    mods[CHOOSE i \in 1..Len(mods) :
            mods[i].id = id /\ \A j \in 1..Len(mods) : mods[j].id = id => j <= i]

\* module.io.inputs of a step whose module has no io: the TypeError every
\* pass of the inspector throws on such a step.
ReadsMissingIo(list, mods) ==
    \E i \in 1..Len(list) :
        Has(mods, list[i].moduleId) /\ ~Get(mods, list[i].moduleId).io.def

Message(kind, step, type) == [kind |-> kind, step |-> step, type |-> type]

\* The errors and warnings one step adds in validateDataFlow: i is the
\* step's index + 1, avail is availableData before the step.
FlowErrors(list, mods, i, avail) ==
    IF ~Has(mods, list[i].moduleId) THEN <<Message("Module not found", i, "")>>
    ELSE LET inputs == Get(mods, list[i].moduleId).io.inputs
             missing == SelectSeq(inputs, LAMBDA in : in.required /\ in.type \notin avail)
         IN [j \in 1..Len(missing) |-> Message("Missing required input", i, missing[j].type)]

FlowWarnings(list, mods, i, avail) ==
    IF ~Has(mods, list[i].moduleId) THEN <<>>
    ELSE LET inputs == Get(mods, list[i].moduleId).io.inputs
             missing == SelectSeq(inputs, LAMBDA in : ~in.required /\ in.type \notin avail)
         IN [j \in 1..Len(missing) |-> Message("Optional input", i, missing[j].type)]

\* The output dataTypes of the step's module (none for an unknown module).
Outputs(list, mods, i) ==
    IF Has(mods, list[i].moduleId) THEN Range(Get(mods, list[i].moduleId).io.outputs)
    ELSE {}

\* A data flow in which a step's own outputs count as available to it.
RECURSIVE validateDataFlow_OwnOutputs(_, _, _, _, _)
validateDataFlow_OwnOutputs(list, mods, i, avail, acc) ==
    IF i > Len(list) THEN acc
    ELSE validateDataFlow_OwnOutputs(list, mods, i + 1, avail \cup Outputs(list, mods, i),
            [errors |-> acc.errors \o FlowErrors(list, mods, i, avail \cup Outputs(list, mods, i)),
             warnings |-> acc.warnings \o FlowWarnings(list, mods, i, avail \cup Outputs(list, mods, i))])

\* validateDataFlow from step i on.
RECURSIVE validateDataFlow(_, _, _, _, _)
validateDataFlow(list, mods, i, avail, acc) ==
    IF i > Len(list) THEN acc
    ELSE validateDataFlow(list, mods, i + 1, avail \cup Outputs(list, mods, i),
            [errors |-> acc.errors \o FlowErrors(list, mods, i, avail),
             warnings |-> acc.warnings \o FlowWarnings(list, mods, i, avail)])

\* The dataTypes the capability lists name.
DataTypes == {"products", "customers", "quotes", "analytics", "approval"}

\* availableOutputs before the first step: no dataType has a module id.
NoOutputs == [t \in DataTypes |-> ""]

\* confidence of a suggested connection, in tenths: 0.9 and 0.6.
ConfidenceRequired == 9
ConfidenceOptional == 6

\* The connections step i adds: one per input whose dataType avail maps to
\* a module id.
Connections(list, mods, i, avail) ==
    IF ~Has(mods, list[i].moduleId) THEN <<>>
    ELSE LET module == Get(mods, list[i].moduleId)
             met == SelectSeq(module.io.inputs, LAMBDA in : avail[in.type] # "")
         IN [j \in 1..Len(met) |->
                [fromModule |-> avail[met[j].type],
                 toModule |-> module.id,
                 dataType |-> met[j].type,
                 confidence |-> IF met[j].required THEN ConfidenceRequired
                                ELSE ConfidenceOptional]]

\* availableOutputs.set(output.type, module.id) for every output of step i.
SetOutputs(list, mods, i, avail) ==
    [t \in DataTypes |->
        IF t \in Outputs(list, mods, i) THEN Get(mods, list[i].moduleId).id ELSE avail[t]]

\* generateSuggestedConnections from step i on.
RECURSIVE generateSuggestedConnections(_, _, _, _)
generateSuggestedConnections(list, mods, i, avail) ==
    IF i > Len(list) THEN <<>>
    ELSE Connections(list, mods, i, avail)
         \o generateSuggestedConnections(list, mods, i + 1, SetOutputs(list, mods, i, avail))

\* availableData of buildDependencyGraph before the first step: no dataType
\* has a step index (-1 stands for no entry).
NoneAvailable == [t \in DataTypes |-> -1]

\* An item of a dependencies list: 'Missing required input: T' or
\* 'T from step k'.
Item(kind, type, k) == [kind |-> kind, type |-> type, step |-> k]

\* Items for the required inputs only.
GraphItems_RequiredOnly(inputs, avail) ==
    LET listed == SelectSeq(inputs, LAMBDA in : in.required)
    IN [j \in 1..Len(listed) |->
           IF avail[listed[j].type] = -1
           THEN Item("Missing required input", listed[j].type, -1)
           ELSE Item("from step", listed[j].type, avail[listed[j].type])]

\* The dependencies of one step: an item for a required input that is not
\* available, an item for an input that is, none for an optional input that
\* is not.
GraphItems(inputs, avail) ==
    LET listed == SelectSeq(inputs, LAMBDA in : in.required \/ avail[in.type] # -1)
    IN [j \in 1..Len(listed) |->
           IF listed[j].required /\ avail[listed[j].type] = -1
           THEN Item("Missing required input", listed[j].type, -1)
           ELSE Item("from step", listed[j].type, avail[listed[j].type])]

\* An availableData that keeps the first step that output a dataType.
SetAvailable_KeepFirst(list, mods, i, avail) ==
    [t \in DataTypes |->
        IF t \in Outputs(list, mods, i) /\ avail[t] = -1 THEN i - 1 ELSE avail[t]]

\* availableData.set(output.type, index) for every output of step i (index
\* is i - 1).
SetAvailable(list, mods, i, avail) ==
    [t \in DataTypes |-> IF t \in Outputs(list, mods, i) THEN i - 1 ELSE avail[t]]

\* buildDependencyGraph from step i on: a step whose module is unknown adds
\* no entry.
RECURSIVE buildDependencyGraph(_, _, _, _)
buildDependencyGraph(list, mods, i, avail) ==
    IF i > Len(list) THEN <<>>
    ELSE IF ~Has(mods, list[i].moduleId)
         THEN buildDependencyGraph(list, mods, i + 1, avail)
         ELSE <<[moduleId |-> list[i].moduleId,
                 level |-> i - 1,
                 dependencies |-> GraphItems(Get(mods, list[i].moduleId).io.inputs, avail),
                 outputs |-> Get(mods, list[i].moduleId).io.outputs]>>
              \o buildDependencyGraph(list, mods, i + 1, SetAvailable(list, mods, i, avail))

\* Some step before step i has a module that outputs t.
ProvidedBefore(list, mods, i, t) == \E j \in 1..(i - 1) : t \in Outputs(list, mods, j)

\* The second pass of checkMissingDependencies from step i on.
RECURSIVE checkMissingDependencies(_, _, _)
checkMissingDependencies(list, mods, i) ==
    IF i > Len(list) THEN <<>>
    ELSE (IF ~Has(mods, list[i].moduleId) THEN <<>>
          ELSE LET inputs == Get(mods, list[i].moduleId).io.inputs
                   missing == SelectSeq(inputs, LAMBDA in :
                                  in.required /\ ~ProvidedBefore(list, mods, i, in.type))
               IN [j \in 1..Len(missing) |->
                      Message("No previous step provides", i, missing[j].type)])
         \o checkMissingDependencies(list, mods, i + 1)

\* error.includes(phrase): the phrase is the fixed text the message was
\* built around.
Includes(message, phrase) == message.kind = phrase

\* module?.category || 'unknown'
CategoryOf(list, mods, i) ==
    IF Has(mods, list[i].moduleId) /\ Get(mods, list[i].moduleId).category # ""
    THEN Get(mods, list[i].moduleId).category
    ELSE "unknown"

highRiskModules == {"quotation", "discount-pricing", "email-interact"}

Suggestion(kind) == Message(kind, 0, "")

\* suggestHumanInterventionModules(steps, moduleMap, errors)
suggestHumanInterventionModules(list, mods, errors) ==
    LET hasHumanDecision == \E i \in 1..Len(list) : list[i].moduleId = "human-decision"
        hasManualInput == \E i \in 1..Len(list) : list[i].moduleId = "human-manual-input"
        missingDataErrors == SelectSeq(errors, LAMBDA e : Includes(e, "Missing required input"))
        noDataSourceErrors == SelectSeq(errors, LAMBDA e : Includes(e, "No previous step provides"))
        gaps == SelectSeq([i \in 1..(IF Len(list) = 0 THEN 0 ELSE Len(list) - 1) |-> i],
                          LAMBDA i : /\ CategoryOf(list, mods, i) = "data_collection"
                                     /\ CategoryOf(list, mods, i + 1) = "communication"
                                     /\ ~hasManualInput)
    IN (IF Len(missingDataErrors) > 0 /\ ~hasManualInput
        THEN <<Suggestion("Missing data detected")>> ELSE <<>>)
       \o (IF Len(noDataSourceErrors) > 0 /\ ~hasManualInput
           THEN <<Suggestion("Add Human Manual Input")>> ELSE <<>>)
       \o (IF (\E i \in 1..Len(list) : list[i].moduleId \in highRiskModules) /\ ~hasHumanDecision
           THEN <<Suggestion("Financial/communication modules detected")>> ELSE <<>>)
       \o (IF Len(list) > ComplexThreshold /\ ~hasHumanDecision
           THEN <<Suggestion("Complex workflow detected")>> ELSE <<>>)
       \o [j \in 1..Len(gaps) |-> Suggestion("Data gap detected")]
       \o (IF Len(list) > 0 /\ CategoryOf(list, mods, Len(list)) = "analysis" /\ ~hasHumanDecision
           THEN <<Suggestion("Analysis endpoint detected")>> ELSE <<>>)

\* A validator that counts the warnings as errors.
validateWorkflow_WarningsInvalidate(list, mods) ==
    LET flow == validateDataFlow(list, mods, 1, {}, [errors |-> <<>>, warnings |-> <<>>])
        errors == flow.errors \o checkMissingDependencies(list, mods, 1)
        warnings == flow.warnings \o suggestHumanInterventionModules(list, mods, errors)
    IN [pc |-> "returned", isValid |-> Len(errors) + Len(warnings) = 0,
        errors |-> errors, warnings |-> warnings,
        suggestedConnections |-> generateSuggestedConnections(list, mods, 1, NoOutputs),
        dependencyGraph |-> buildDependencyGraph(list, mods, 1, NoneAvailable)]

\* What validateWorkflow returns when no pass throws.
validateWorkflow(list, mods) ==
    LET flow == validateDataFlow(list, mods, 1, {}, [errors |-> <<>>, warnings |-> <<>>])
        errors == flow.errors \o checkMissingDependencies(list, mods, 1)
        warnings == flow.warnings \o suggestHumanInterventionModules(list, mods, errors)
    IN [pc |-> "returned", isValid |-> Len(errors) = 0,
        errors |-> errors, warnings |-> warnings,
        suggestedConnections |-> generateSuggestedConnections(list, mods, 1, NoOutputs),
        dependencyGraph |-> buildDependencyGraph(list, mods, 1, NoneAvailable)]

\* validateWorkflow(steps, modules) has been called.
ValidateInit ==
    /\ steps \in FlowLists
    /\ modules \in CapabilityLists
    /\ validation = [pc |-> "called", isValid |-> FALSE, errors |-> <<>>, warnings |-> <<>>,
                    suggestedConnections |-> <<>>, dependencyGraph |-> <<>>]
    /\ pc = "idle"
    /\ status = << >>
    /\ result = << >>
    /\ completed = {}
    /\ running = {}
    /\ at = << >>
    /\ input = << >>
    /\ batch = {}
    /\ launched = <<>>
    /\ results = << >>
    /\ stored = NoWorkflow
    /\ body = <<>>
    /\ order = <<>>
    /\ AnalyzerIdle
    /\ StepperIdle
    /\ AdviceIdle

\* Every pass ran and the result is returned.
ValidateReturns ==
    /\ validation.pc = "called"
    /\ ~ReadsMissingIo(steps, modules)
    /\ validation' = validateWorkflow(steps, modules)
    /\ UNCHANGED <<modules, advice, analyzer, pc, steps, status, result, completed,
                   running, at, input, batch, launched, results, stored, body, order, stepper>>

\* buildDependencyGraph, the first pass, reads io.inputs of a module stored
\* without io: the TypeError leaves validateWorkflow.
ValidateThrows ==
    /\ validation.pc = "called"
    /\ ReadsMissingIo(steps, modules)
    /\ validation' = [validation EXCEPT !.pc = "TypeError"]
    /\ UNCHANGED <<modules, advice, analyzer, pc, steps, status, result, completed,
                   running, at, input, batch, launched, results, stored, body, order, stepper>>

ValidateNext == ValidateReturns \/ ValidateThrows

ValidateSpec == ValidateInit /\ [][ValidateNext]_vars

\* ---------------------------------------------------------- compatibility
\* A module of category integration, which the catalogue above lacks.
IntegrationForm ==
    [id |-> "connector-divisions", io |-> Io(<<Optional("analytics")>>, <<"sync_data">>),
     category |-> "integration"]

\* The modules handed to getModuleCompatibility.
AllForms == UNION {ModuleForms[k] : k \in DOMAIN ModuleForms} \cup {IntegrationForm}

\* A table in which integration flows on to analysis.
categoryCompatibility_IntegrationFlows(category) ==
    CASE category = "data_collection" -> {"processing"}
      [] category = "processing" -> {"communication", "analysis"}
      [] category = "communication" -> {"decision", "analysis"}
      [] category = "decision" -> {"analysis", "integration"}
      [] category = "analysis" -> {"integration"}
      [] category = "integration" -> {"analysis", "processing", "decision"}
      [] OTHER -> {}

\* The categoryCompatibility table; a category it has no key for (a module
\* stored without category) gives undefined, which ?. turns into no bonus.
categoryCompatibility(category) ==
    CASE category = "data_collection" -> {"processing"}
      [] category = "processing" -> {"communication", "analysis"}
      [] category = "communication" -> {"decision", "analysis"}
      [] category = "decision" -> {"analysis", "integration"}
      [] category = "analysis" -> {"integration"}
      [] OTHER -> {}

\* The score is kept in tenths: 0.3 per common type, 0.4 for the category
\* bonus, compatible above 0.2.
TypeScore == 3
CategoryBonus == 4
CompatibleAbove == 2

\* outputTypes.filter(type => inputTypes.includes(type))
commonTypes(moduleA, moduleB) ==
    SelectSeq(moduleA.io.outputs,
              LAMBDA type : \E i \in 1..Len(moduleB.io.inputs) : moduleB.io.inputs[i].type = type)

\* A compatibility without the category bonus.
getModuleCompatibility_NoBonus(moduleA, moduleB) ==
    LET score == Len(commonTypes(moduleA, moduleB)) * TypeScore
    IN [pc |-> "returned", moduleA |-> moduleA, moduleB |-> moduleB,
        compatible |-> score > CompatibleAbove, score |-> score]

\* What getModuleCompatibility returns when both modules carry io.
getModuleCompatibility(moduleA, moduleB) ==
    LET score == Len(commonTypes(moduleA, moduleB)) * TypeScore
                 + (IF moduleB.category \in categoryCompatibility(moduleA.category)
                    THEN CategoryBonus ELSE 0)
    IN [pc |-> "returned", moduleA |-> moduleA, moduleB |-> moduleB,
        compatible |-> score > CompatibleAbove, score |-> score]

\* getModuleCompatibility(moduleA, moduleB) has been called.
CompatInit ==
    /\ \E a \in AllForms, b \in AllForms :
          compatibility = [pc |-> "called", moduleA |-> a, moduleB |-> b,
                           compatible |-> FALSE, score |-> 0]
    /\ optimal = NoOrder
    /\ autofix = NoFix
    /\ modules = <<>>
    /\ validation = NoValidation
    /\ steps = <<>>
    /\ pc = "idle"
    /\ status = << >>
    /\ result = << >>
    /\ completed = {}
    /\ running = {}
    /\ at = << >>
    /\ input = << >>
    /\ batch = {}
    /\ launched = <<>>
    /\ results = << >>
    /\ stored = NoWorkflow
    /\ body = <<>>
    /\ order = <<>>
    /\ AnalyzerIdle
    /\ StepperIdle

CompatReturns ==
    /\ compatibility.pc = "called"
    /\ compatibility.moduleA.io.def /\ compatibility.moduleB.io.def
    /\ compatibility' = getModuleCompatibility(compatibility.moduleA, compatibility.moduleB)
    /\ UNCHANGED <<optimal, autofix, modules, validation, analyzer, pc, steps, status,
                   result, completed, running, at, input, batch, launched, results, stored, body,
                   order, stepper>>

\* moduleA.io.outputs or moduleB.io.inputs of a module stored without io.
CompatThrows ==
    /\ compatibility.pc = "called"
    /\ ~(compatibility.moduleA.io.def /\ compatibility.moduleB.io.def)
    /\ compatibility' = [compatibility EXCEPT !.pc = "TypeError"]
    /\ UNCHANGED <<optimal, autofix, modules, validation, analyzer, pc, steps, status,
                   result, completed, running, at, input, batch, launched, results, stored, body,
                   order, stepper>>

CompatNext == CompatReturns \/ CompatThrows

CompatSpec == CompatInit /\ [][CompatNext]_vars

\* ---------------------------------------------------------- optimal order
\* The moduleId lists handed to suggestOptimalOrder.
ModuleIdLists == SeqsUpTo(ModuleIds, MaxFlow)

\* The bucket of one category: the ids of the list, in list order, whose
\* module the capability list holds with that category.
Bucket(moduleIds, mods, category) ==
    SelectSeq(moduleIds, LAMBDA id : Has(mods, id) /\ Get(mods, id).category = category)

\* The six justification strings, by their first words.
reasoning ==
    <<"Data collection modules should run first", "Processing modules standardize",
      "Communication modules interact", "Decision modules handle approvals",
      "Analysis modules generate insights", "Integration modules sync data">>

\* categories[module.category] of a module stored without category is
\* undefined, and push on it a TypeError.
PushesOnMissingCategory(moduleIds, mods) ==
    \E i \in 1..Len(moduleIds) :
        Has(mods, moduleIds[i]) /\ Get(mods, moduleIds[i]).category = ""

\* An order that puts analysis before decision.
suggestOptimalOrder_AnalysisFirst(moduleIds, mods) ==
    [pc |-> "returned", moduleIds |-> moduleIds,
     order |-> Bucket(moduleIds, mods, "data_collection")
               \o Bucket(moduleIds, mods, "processing")
               \o Bucket(moduleIds, mods, "communication")
               \o Bucket(moduleIds, mods, "analysis")
               \o Bucket(moduleIds, mods, "decision")
               \o Bucket(moduleIds, mods, "integration"),
     reasoning |-> reasoning]

\* What suggestOptimalOrder returns when no push throws.
suggestOptimalOrder(moduleIds, mods) ==
    [pc |-> "returned", moduleIds |-> moduleIds,
     order |-> Bucket(moduleIds, mods, "data_collection")
               \o Bucket(moduleIds, mods, "processing")
               \o Bucket(moduleIds, mods, "communication")
               \o Bucket(moduleIds, mods, "decision")
               \o Bucket(moduleIds, mods, "analysis")
               \o Bucket(moduleIds, mods, "integration"),
     reasoning |-> reasoning]

\* suggestOptimalOrder(moduleIds, modules) has been called.
OrderInit ==
    /\ modules \in CapabilityLists
    /\ \E ids \in ModuleIdLists :
          optimal = [pc |-> "called", moduleIds |-> ids, order |-> <<>>, reasoning |-> <<>>]
    /\ compatibility = NoCompatibility
    /\ autofix = NoFix
    /\ validation = NoValidation
    /\ steps = <<>>
    /\ pc = "idle"
    /\ status = << >>
    /\ result = << >>
    /\ completed = {}
    /\ running = {}
    /\ at = << >>
    /\ input = << >>
    /\ batch = {}
    /\ launched = <<>>
    /\ results = << >>
    /\ stored = NoWorkflow
    /\ body = <<>>
    /\ order = <<>>
    /\ AnalyzerIdle
    /\ StepperIdle

OrderReturns ==
    /\ optimal.pc = "called"
    /\ ~PushesOnMissingCategory(optimal.moduleIds, modules)
    /\ optimal' = suggestOptimalOrder(optimal.moduleIds, modules)
    /\ UNCHANGED <<compatibility, autofix, modules, validation, analyzer, pc, steps,
                   status, result, completed, running, at, input, batch, launched, results, stored,
                   body, order, stepper>>

OrderThrows ==
    /\ optimal.pc = "called"
    /\ PushesOnMissingCategory(optimal.moduleIds, modules)
    /\ optimal' = [optimal EXCEPT !.pc = "TypeError"]
    /\ UNCHANGED <<compatibility, autofix, modules, validation, analyzer, pc, steps,
                   status, result, completed, running, at, input, batch, launched, results, stored,
                   body, order, stepper>>

OrderNext == OrderReturns \/ OrderThrows

OrderSpec == OrderInit /\ [][OrderNext]_vars

\* ---------------------------------------------------------------- auto-fix
\* Date.now(): the clock value the synthetic instanceIds carry; nothing
\* modelled reads it back.
Now == "now"

\* The synthetic steps (their config is not read by anything modelled).
manualInputStep ==
    [instanceId |-> "human-manual-input-" \o Now, moduleId |-> "human-manual-input"]
decisionStep(i) ==
    [instanceId |-> "human-decision-" \o Now \o "-" \o ToString(i),
     moduleId |-> "human-decision"]
finalDecisionStep ==
    [instanceId |-> "human-decision-final-" \o Now, moduleId |-> "human-decision"]

riskModules == {"quotation", "discount-pricing", "email-interact"}

\* A change note: what was added and, for an approval checkpoint, before
\* which module (the module's name, or 'this operation' for a module the
\* capability list does not hold).
Change(kind, before) == [kind |-> kind, before |-> before]

\* moduleMap.get(moduleId)?.name || 'this operation'
moduleName(mods, moduleId) == IF Has(mods, moduleId) THEN moduleId ELSE "this operation"

\* fixedSteps.splice(k - 1, 0, step): step becomes the k-th element.
Splice(q, k, step) == SubSeq(q, 1, k - 1) \o <<step>> \o SubSeq(q, k, Len(q))

\* A scan that takes any earlier human-decision step for the approval.
RECURSIVE Scan_AnyEarlierDecision(_, _, _, _)
Scan_AnyEarlierDecision(mods, fixedSteps, changes, k) ==
    IF k > Len(fixedSteps) THEN [fixedSteps |-> fixedSteps, changes |-> changes]
    ELSE IF /\ fixedSteps[k].moduleId \in riskModules
            /\ ~(\E j \in 1..(k - 1) : fixedSteps[j].moduleId = "human-decision")
         THEN Scan_AnyEarlierDecision(mods, Splice(fixedSteps, k, decisionStep(k - 1)),
                   Append(changes, Change("Added Human Decision approval checkpoint",
                                          moduleName(mods, fixedSteps[k].moduleId))),
                   k + 2)
         ELSE Scan_AnyEarlierDecision(mods, fixedSteps, changes, k + 1)

\* The loop over the growing fixedSteps from its k-th element (i = k - 1)
\* on: an approval step is spliced in before a risk step that has none
\* right before it, and the index skips the inserted step.
RECURSIVE Scan(_, _, _, _)
Scan(mods, fixedSteps, changes, k) ==
    IF k > Len(fixedSteps) THEN [fixedSteps |-> fixedSteps, changes |-> changes]
    ELSE IF /\ fixedSteps[k].moduleId \in riskModules
            /\ ~(k > 1 /\ fixedSteps[k - 1].moduleId = "human-decision")
         THEN Scan(mods, Splice(fixedSteps, k, decisionStep(k - 1)),
                   Append(changes, Change("Added Human Decision approval checkpoint",
                                          moduleName(mods, fixedSteps[k].moduleId))),
                   k + 2)
         ELSE Scan(mods, fixedSteps, changes, k + 1)

\* Step 1: one manual-input step in front when an error is about missing
\* data.
PrependManualInput(list, errors) ==
    IF \E j \in 1..Len(errors) :
          Includes(errors[j], "Missing required input")
              \/ Includes(errors[j], "No previous step provides")
    THEN [fixedSteps |-> <<manualInputStep>> \o list,
          changes |-> <<Change("Added Human Manual Input", "")>>]
    ELSE [fixedSteps |-> list, changes |-> <<>>]

\* Step 3: a final approval step after a last step of category analysis.
AppendFinalDecision(mods, fixed) ==
    LET lastStep == fixed.fixedSteps[Len(fixed.fixedSteps)]
    IN IF /\ Has(mods, lastStep.moduleId)
          /\ Get(mods, lastStep.moduleId).category = "analysis"
          /\ lastStep.moduleId # "human-decision"
       THEN [fixedSteps |-> Append(fixed.fixedSteps, finalDecisionStep),
             changes |-> Append(fixed.changes, Change("Added final Human Decision", ""))]
       ELSE fixed

\* The three steps, taken whatever the validation says.
autoFixWorkflowWithHumanModules_AlwaysFix(list, mods, v) ==
    IF list # <<>>
    THEN LET prefixed == PrependManualInput(list, v.errors)
             scanned == Scan(mods, prefixed.fixedSteps, prefixed.changes, 1)
             fixed == AppendFinalDecision(mods, scanned)
         IN [pc |-> "returned", fixedSteps |-> fixed.fixedSteps, changes |-> fixed.changes]
    ELSE [pc |-> "returned", fixedSteps |-> list, changes |-> <<>>]

\* What autoFixWorkflowWithHumanModules returns, v being the validation of
\* the list.
autoFixWorkflowWithHumanModules(list, mods, v) ==
    IF ~v.isValid
    THEN LET prefixed == PrependManualInput(list, v.errors)
             scanned == Scan(mods, prefixed.fixedSteps, prefixed.changes, 1)
             fixed == AppendFinalDecision(mods, scanned)
         IN [pc |-> "returned", fixedSteps |-> fixed.fixedSteps, changes |-> fixed.changes]
    ELSE [pc |-> "returned", fixedSteps |-> list, changes |-> <<>>]

\* autoFixWorkflowWithHumanModules(steps, modules) has been called.
FixInit ==
    /\ steps \in FlowLists
    /\ modules \in CapabilityLists
    /\ autofix = [pc |-> "called", fixedSteps |-> <<>>, changes |-> <<>>]
    /\ validation = NoValidation
    /\ compatibility = NoCompatibility
    /\ optimal = NoOrder
    /\ pc = "idle"
    /\ status = << >>
    /\ result = << >>
    /\ completed = {}
    /\ running = {}
    /\ at = << >>
    /\ input = << >>
    /\ batch = {}
    /\ launched = <<>>
    /\ results = << >>
    /\ stored = NoWorkflow
    /\ body = <<>>
    /\ order = <<>>
    /\ AnalyzerIdle
    /\ StepperIdle

\* A fix that works on the caller's array itself: the caller's list is
\* what unshift, splice and push made of it.
CallerList_Aliased(list, fixedSteps) == fixedSteps

\* let fixedSteps = [...steps]: unshift, splice and push work on a copy,
\* so the caller's array holds after the call what it held before.
CallerList(list, fixedSteps) == list

\* The validation returned and the fix, if any, is returned.
FixReturns ==
    /\ autofix.pc = "called"
    /\ ~ReadsMissingIo(steps, modules)
    /\ validation' = validateWorkflow(steps, modules)
    /\ autofix' = autoFixWorkflowWithHumanModules(steps, modules, validation')
    /\ steps' = CallerList(steps, autofix'.fixedSteps)
    /\ UNCHANGED <<compatibility, optimal, modules, analyzer, pc, status, result,
                   completed, running, at, input, batch, launched, results, stored, body, order, stepper>>

\* The validation threw: the TypeError leaves autoFixWorkflowWithHumanModules.
FixThrows ==
    /\ autofix.pc = "called"
    /\ ReadsMissingIo(steps, modules)
    /\ validation' = [validation EXCEPT !.pc = "TypeError"]
    /\ autofix' = [autofix EXCEPT !.pc = "TypeError"]
    /\ UNCHANGED <<compatibility, optimal, modules, analyzer, pc, steps, status, result,
                   completed, running, at, input, batch, launched, results, stored, body, order, stepper>>

FixNext == FixReturns \/ FixThrows

FixSpec == FixInit /\ [][FixNext]_vars

\* ------------------------------------------------------------ step by step
\* A moduleId ModuleStorage holds no module for.
UnknownModule == "retired-module"

\* The modules ModuleStorage holds, as defaultModules ships them.
StoredModules ==
    <<[id |-> "ecommerce-scraper", io |-> Io(<<>>, <<"products">>),
       category |-> "data_collection"],
      [id |-> "quotation", io |-> NoIo, category |-> ""]>>

\* The workflows an execution is started for: up to MaxFlow steps over the
\* stored modules and the unknown one.
StepFlows ==
    {Flow(q) : q \in SeqsUpTo({"ecommerce-scraper", "quotation", UnknownModule}, MaxFlow)}

\* ExecutionStorage.create of POST /api/workflows/:id/execute.
create == [exists |-> TRUE, status |-> "pending", currentStepIndex |-> 0, results |-> << >>]

\* What the module call of a step request gives: the module's record, or
\* the error record the catch block builds.
Outcome(st, moduleId) == [status |-> st, moduleId |-> moduleId]

\* { ...execution.results, [execution.currentStepIndex]: result }
WithResult(res, index, value) ==
    [k \in (DOMAIN res) \cup {index} |-> IF k = index THEN value ELSE res[k]]

\* Updates whose status is completed only past the last step.
updates_PastLast(read, value, length) ==
    [status |-> IF read.currentStepIndex + 1 > length THEN "completed" ELSE "running",
     currentStepIndex |-> read.currentStepIndex + 1,
     results |-> WithResult(read.results, read.currentStepIndex, value)]

\* The updates object of the step handler, built from the record it read.
updates(read, value, length) ==
    [status |-> IF read.currentStepIndex + 1 >= length THEN "completed" ELSE "running",
     currentStepIndex |-> read.currentStepIndex + 1,
     results |-> WithResult(read.results, read.currentStepIndex, value)]

\* ExecutionStorage.update: { ...executions[index], ...updates }, or no
\* change when the record is not there.
update(stored_execution, u) ==
    IF ~stored_execution.exists THEN stored_execution
    ELSE [stored_execution EXCEPT !.status = u.status,
                                  !.currentStepIndex = u.currentStepIndex,
                                  !.results = u.results]

\* The workflows overlapping requests are made for.
RaceFlows ==
    {Flow(q) : q \in SeqsUpTo({"ecommerce-scraper", "quotation", UnknownModule}, MaxRace)}

\* An execution has been created for a stored workflow of flows and no step
\* request has been made.
StepStart(flows) ==
    /\ \E list \in flows : stored = [exists |-> TRUE, steps |-> list]
    /\ modules = StoredModules
    /\ execution = create
    /\ requests = [r \in Requests |-> NoRequest]
    /\ invoked = <<>>
    /\ validation = NoValidation
    /\ AdviceIdle
    /\ AnalyzerIdle
    /\ steps = <<>>
    /\ pc = "idle"
    /\ status = << >>
    /\ result = << >>
    /\ completed = {}
    /\ running = {}
    /\ at = << >>
    /\ input = << >>
    /\ batch = {}
    /\ launched = <<>>
    /\ results = << >>
    /\ body = <<>>
    /\ order = <<>>

StepInit == StepStart(StepFlows)

\* The handler has answered with this status; it holds no record any more.
Responded(code) ==
    [pc |-> "responded", execution |-> NoExecution, result |-> NoOutcome, response |-> code]

\* No other step request is between its read and its response.
Alone(r) == \A o \in Requests \ {r} : requests[o].pc \in {"idle", "responded"}

\* A step request arrives and its handler reads the execution record
\* (await ExecutionStorage.getById).
StepGetById(r) ==
    /\ requests[r].pc \in {"idle", "responded"}
    /\ requests' = [requests EXCEPT ![r] =
                       IF execution.exists
                       THEN [pc |-> "getById", execution |-> execution,
                             result |-> NoOutcome, response |-> 0]
                       ELSE Responded(404)]
    /\ UNCHANGED <<execution, invoked, pc, steps, status, result, completed, running, at,
                   input, batch, launched, results, stored, body, order, analyzer, inspector>>

\* The handler loads the workflow, picks workflow.steps[currentStepIndex],
\* loads its module and calls it; or answers 404 or 400.
StepCallModule(r) ==
    /\ requests[r].pc = "getById"
    /\ LET index == requests[r].execution.currentStepIndex
       IN IF ~stored.exists
          THEN /\ requests' = [requests EXCEPT ![r] = Responded(404)]
               /\ UNCHANGED invoked
          ELSE IF ~(index + 1 \in 1..Len(stored.steps))
          THEN /\ requests' = [requests EXCEPT ![r] = Responded(400)]
               /\ UNCHANGED invoked
          ELSE IF ~Has(modules, stored.steps[index + 1].moduleId)
          THEN /\ requests' = [requests EXCEPT ![r] = Responded(404)]
               /\ UNCHANGED invoked
          ELSE /\ requests' = [requests EXCEPT ![r].pc = "executeModule"]
               /\ invoked' = Append(invoked, index)
    /\ UNCHANGED <<execution, pc, steps, status, result, completed, running, at,
                   input, batch, launched, results, stored, body, order, analyzer, inspector>>

\* The module call returned, or threw and the catch block built the error
\* record.
StepModuleSettles(r, st) ==
    /\ requests[r].pc = "executeModule"
    /\ LET index == requests[r].execution.currentStepIndex
       IN requests' = [requests EXCEPT
                          ![r].pc = "update",
                          ![r].result = Outcome(st, stored.steps[index + 1].moduleId)]
    /\ UNCHANGED <<execution, invoked, pc, steps, status, result, completed, running, at,
                   input, batch, launched, results, stored, body, order, analyzer, inspector>>

\* ExecutionStorage.update writes the record and the handler answers with
\* it.
StepUpdate(r) ==
    /\ requests[r].pc = "update"
    /\ execution' = update(execution,
                           updates(requests[r].execution, requests[r].result,
                                   Len(stored.steps)))
    /\ requests' = [requests EXCEPT ![r] = Responded(200)]
    /\ UNCHANGED <<invoked, pc, steps, status, result, completed, running, at,
                   input, batch, launched, results, stored, body, order, analyzer, inspector>>

\* Step requests made one after the other: a request arrives only when no
\* other is being handled.
StepNext ==
    \/ \E r \in Requests : Alone(r) /\ StepGetById(r)
    \/ \E r \in Requests : StepCallModule(r)
    \/ \E r \in Requests : \E st \in {"completed", "error"} : StepModuleSettles(r, st)
    \/ \E r \in Requests : StepUpdate(r)

StepSpec == StepInit /\ [][StepNext]_vars

\* Step requests that may overlap: a request arrives at any time.
OverlapNext ==
    \/ \E r \in Requests : StepGetById(r)
    \/ \E r \in Requests : StepCallModule(r)
    \/ \E r \in Requests : \E st \in {"completed", "error"} : StepModuleSettles(r, st)
    \/ \E r \in Requests : StepUpdate(r)

OverlapInit == StepStart(RaceFlows)

OverlapSpec == OverlapInit /\ [][OverlapNext]_vars

\* ------------------------------------------------------- dependency graphs
\* The ids the steps of S depend on directly.
DepsOfSet(list, S) ==
    UNION {Range(StepOf(list, id).dependsOn) : id \in S \cap InstanceIds(list)}

RECURSIVE Closure(_, _, _)
Closure(list, S, n) ==
    IF n = 0 THEN S ELSE Closure(list, S \cup DepsOfSet(list, S), n - 1)

\* Every id `id` depends on, directly or transitively.
Reach(list, id) == Closure(list, DepsOfSet(list, {id}), Len(list))

OnCycle(list, id) == id \in Reach(list, id)

HasCycle(list) == \E id \in InstanceIds(list) : OnCycle(list, id)

\* On a cycle or downstream of one.
BehindCycle(list, id) ==
    OnCycle(list, id) \/ \E t \in Reach(list, id) \cap InstanceIds(list) : OnCycle(list, t)

\* Depends, directly or transitively, on an id that names no step.
BehindMissing(list, id) == Reach(list, id) \ InstanceIds(list) # {}

AllDepsNamed(list) == \A id \in InstanceIds(list) : ~BehindMissing(list, id)

\* The steps that no cycle and no missing step holds back.
Unblocked(list) ==
    {id \in InstanceIds(list) : ~BehindCycle(list, id) /\ ~BehindMissing(list, id)}

\* The module of step id was called.
Called(id) == input[id].kind # "none"

\* ------------------------------------------------------------------ claims

\* execute() has returned or thrown.
Ended == pc \in {"returned", "deadlock"}

\* The steps execute() and its executeStep calls still have to take: three
\* per step not launched, two per step waiting for getById, one per step in
\* its module call, and the loop's own last pass.
StepsLeft ==
    3 * Cardinality({id \in DOMAIN at : at[id] = "none"})
    + 2 * Cardinality({id \in DOMAIN at : at[id] = "getById"})
    + Cardinality({id \in DOMAIN at : at[id] = "executeModule"})

Rank == StepsLeft + (IF Ended THEN 0 ELSE 1)

\* C1 (as amended): for every step list whose dependsOn relation has no
\* cycle and names only steps of the list, and provided every module call
\* returns or throws, execute() never raises the deadlock error, it returns,
\* and at return completed.size = steps.length. Termination: until execute()
\* has ended some step of it or of a module call can be taken, and every
\* step taken lowers Rank, so under FairSpec's fairness the run ends.
C1_AcyclicRunCompletes ==
    /\ [](/\ pc = "deadlock" => (HasCycle(steps) \/ ~AllDepsNamed(steps))
          /\ pc = "returned" =>
                (Cardinality(completed) = Len(steps)
                    \/ HasCycle(steps) \/ ~AllDepsNamed(steps))
          /\ ~Ended =>
                (ENABLED <<Next>>_vars \/ HasCycle(steps) \/ ~AllDepsNamed(steps)))
    /\ [][Rank' < Rank \/ HasCycle(steps) \/ ~AllDepsNamed(steps)]_vars

\* C1 as stated: no cycle in dependsOn is enough for execute() never to
\* raise the deadlock error.
C1_Original == ~HasCycle(steps) => pc # "deadlock"

C1_Witness ==
    /\ pc = "returned"
    /\ Cardinality(completed) = Len(steps)
    /\ \E id \in DOMAIN status : Len(DependsOn(id)) >= 2
    /\ \E id \in DOMAIN status : status[id] = "failed"

\* C2 (as amended): for every step list whose dependsOn relation has a
\* cycle, execute() never returns normally and never waits in the poll; it
\* ends by raising the deadlock error, and when it does, exactly the steps
\* that are not on a cycle, not downstream of one and not dependent on an id
\* that names no step have finished. Termination as for C1: a step can be
\* taken until the error is raised, and every step lowers Rank.
C2_CycleDeadlocks ==
    /\ [](/\ pc \in {"returned", "sleep"} => ~HasCycle(steps)
          /\ pc = "deadlock" => (completed = Unblocked(steps) \/ ~HasCycle(steps))
          /\ pc # "deadlock" => (ENABLED <<Next>>_vars \/ ~HasCycle(steps)))
    /\ [][(Rank' < Rank /\ Rank' >= 0) \/ ~HasCycle(steps)]_vars

\* C2 as stated: when the deadlock error is raised every step that is
\* neither on a cycle nor downstream of one has finished.
C2_Original ==
    (HasCycle(steps) /\ pc = "deadlock") =>
        \A id \in InstanceIds(steps) : ~BehindCycle(steps, id) => id \in completed

C2_Witness ==
    /\ pc = "deadlock"
    /\ HasCycle(steps)
    /\ completed # {}
    /\ \E id \in InstanceIds(steps) : BehindCycle(steps, id) /\ ~OnCycle(steps, id)

\* C3: whenever a step goes from pending to running, every instanceId of
\* its dependsOn is in completed and names a node that is completed or
\* failed.
C3_DependenciesFirst ==
    [][\A id \in DOMAIN status \cap DOMAIN status' :
          (status[id] = "pending" /\ status'[id] = "running") =>
              \A i \in 1..Len(DependsOn(id)) :
                  /\ DependsOn(id)[i] \in completed
                  /\ DependsOn(id)[i] \in DOMAIN status
                  /\ status[DependsOn(id)[i]] \in {"completed", "failed"}]_vars

C3_Witness ==
    \E id \in DOMAIN status :
        /\ status[id] = "running"
        /\ Len(DependsOn(id)) >= 2
        /\ \E i \in 1..Len(DependsOn(id)) : status[DependsOn(id)[i]] = "failed"

\* C4: a failed step (module not found, or the module call threw) is failed
\* with the result {status:"error", error:<message>}, is in completed and
\* not in running; a dependent whose module is called gets that error record
\* as its input or as the matching entry of _allResults; and the deadlock
\* error is raised only when a cycle or a missing step holds a step back,
\* never because a step failed.
C4_FailureContinues ==
    /\ \A id \in DOMAIN status :
          status[id] = "failed" =>
              /\ result[id].def
              /\ \E msg \in {"Module not found", "module failed", "push is not a function"} :
                    result[id].f = ErrorRecord(msg)
              /\ id \in completed
              /\ id \notin running
    /\ \A id \in DOMAIN status :
          Called(id) =>
              \A i \in 1..Len(DependsOn(id)) :
                  LET dep == DependsOn(id)[i]
                  IN status[dep] = "failed" =>
                        IF Len(DependsOn(id)) = 1
                        THEN input[id].kind = "record" /\ input[id].f = result[dep].f
                        ELSE /\ input[id].kind = "merged"
                             /\ i <= Len(input[id].all)
                             /\ input[id].all[i] = result[dep].f
    /\ pc = "deadlock" => \E id \in InstanceIds(steps) \ completed :
                              BehindCycle(steps, id) \/ BehindMissing(steps, id)
    /\ pc = "returned" => \A id \in DOMAIN status : status[id] \in {"completed", "failed"}

C4_Witness ==
    /\ pc = "returned"
    /\ \E id \in DOMAIN status :
          /\ Called(id)
          /\ input[id].kind = "merged"
          /\ \E i \in 1..Len(DependsOn(id)) :
                /\ status[DependsOn(id)[i]] = "failed"
                /\ result[DependsOn(id)[i]].f = ErrorRecord("Module not found")
          /\ \E i \in 1..Len(DependsOn(id)) :
                result[DependsOn(id)[i]].f = ErrorRecord("module failed")

\* C5: a step of a workflow saved through POST or PUT and run through
\* execute-parallel is not running before every step named in the dependsOn
\* it was saved with has finished.
C5_DeclaredOrderHolds ==
    ~HasCycle(body) =>
    \A i \in 1..Len(body) :
        (body[i].instanceId \in DOMAIN status /\ status[body[i].instanceId] # "pending") =>
            \A j \in 1..Len(body[i].dependsOn) : body[i].dependsOn[j] \in completed

\* C7: a module called for a step with no dependency gets null; a module
\* called for a step with one dependency gets that dependency's result
\* record itself, with no _sources and no _allResults.
C7_SingleInputUnchanged ==
    \A id \in DOMAIN status :
        Called(id) =>
            /\ Len(DependsOn(id)) = 0 => input[id] = NullInput
            /\ Len(DependsOn(id)) = 1 =>
                  /\ input[id].kind = "record"
                  /\ input[id].f = result[DependsOn(id)[1]].f
                  /\ input[id].sources = <<>>
                  /\ input[id].all = <<>>

C7_Witness ==
    /\ \E id \in DOMAIN status :
          /\ Called(id)
          /\ Len(DependsOn(id)) = 1
          /\ status[DependsOn(id)[1]] = "completed"
          /\ result[DependsOn(id)[1]].f["data"].k = "array"
    /\ \E id \in DOMAIN status : Called(id) /\ Len(DependsOn(id)) = 0

\* C10: the input of a module called for a step with two or more
\* dependencies carries _sources equal to the step's dependsOn and
\* _allResults listing the dependencies' result records in that order, one
\* per dependency.
C10_SourcesAndAllResults ==
    \A id \in DOMAIN status :
        (Called(id) /\ Len(DependsOn(id)) >= 2) =>
            /\ input[id].kind = "merged"
            /\ input[id].sources = DependsOn(id)
            /\ Len(input[id].all) = Len(input[id].sources)
            /\ \A i \in 1..Len(DependsOn(id)) :
                  input[id].all[i] = result[DependsOn(id)[i]].f

C10_Witness ==
    \E id \in DOMAIN status :
        /\ Called(id)
        /\ Len(DependsOn(id)) >= 2
        /\ status[DependsOn(id)[1]] = "failed"
        /\ status[DependsOn(id)[2]] = "completed"
        /\ DependsOn(id)[1] = "B"

\* What the i-th dependency of step id holds under key.
DepValue(id, i, key) == result[DependsOn(id)[i]].f[key]

\* executeStep got past gatherInputs, with an input or with its throw.
Gathered(id) == at[id] \in {"executeModule", "settled"}

\* The arrays the first n dependencies hold under key, concatenated.
RECURSIVE ConcatArrays(_, _, _)
ConcatArrays(id, key, n) ==
    IF n = 0 THEN <<>>
    ELSE ConcatArrays(id, key, n - 1) \o
         (IF DepValue(id, n, key).k = "array" THEN DepValue(id, n, key).a ELSE <<>>)

\* C6: for a step with two or more dependencies and a key that holds an
\* array in at least one dependency result, the merged input holds under
\* that key the concatenation, in dependsOn order, of all the arrays found
\* under it, whatever the other dependencies hold there.
C6_ArraysConcatenated ==
    \A id \in DOMAIN status :
        (Gathered(id) /\ Len(DependsOn(id)) >= 2) =>
            \A key \in Keys :
                (\E i \in 1..Len(DependsOn(id)) : DepValue(id, i, key).k = "array") =>
                    /\ input[id].kind = "merged"
                    /\ input[id].f[key].k = "array"
                    /\ input[id].f[key].a = ConcatArrays(id, key, Len(DependsOn(id)))

\* C8: for a step with two or more dependencies and a key that holds only
\* scalars (or null, or nothing) in the dependency results, the merged value
\* is the first non-null value in dependsOn order.
C8_FirstNonNullScalar ==
    \A id \in DOMAIN status :
        (Called(id) /\ Len(DependsOn(id)) >= 2 /\ input[id].kind = "merged") =>
            \A key \in Keys :
                LET n == Len(DependsOn(id))
                    nonNull == {i \in 1..n : DepValue(id, i, key).k = "string"}
                IN ((\A i \in 1..n : DepValue(id, i, key).k \in {"undefined", "null", "string"})
                    /\ nonNull # {}) =>
                       input[id].f[key] =
                           DepValue(id, CHOOSE i \in nonNull : \A j \in nonNull : i <= j, key)

\* The value the last dependency that has property p under key gives it.
LastAssigned(id, key, p) ==
    LET has == {i \in 1..Len(DependsOn(id)) : DepValue(id, i, key).o[p] # 0}
    IN IF has = {} THEN 0
       ELSE DepValue(id, CHOOSE i \in has : \A j \in has : j <= i, key).o[p]

\* C9: for a step with two or more dependencies and a key that holds an
\* object in every dependency result that has it, the merged value is the
\* shallow merge of those objects in dependsOn order: each property has the
\* value the last dependency that has it gives it.
C9_ObjectsShallowMerged ==
    \A id \in DOMAIN status :
        (Called(id) /\ Len(DependsOn(id)) >= 2) =>
            \A key \in Keys :
                LET n == Len(DependsOn(id))
                IN ((\A i \in 1..n : DepValue(id, i, key).k \in {"undefined", "object"})
                    /\ (\E i \in 1..n : DepValue(id, i, key).k = "object")) =>
                       /\ input[id].kind = "merged"
                       /\ input[id].f[key].k = "object"
                       /\ \A p \in InnerKeys : input[id].f[key].o[p] = LastAssigned(id, key, p)

C9_Witness ==
    \E id \in DOMAIN status :
        /\ Called(id)
        /\ Len(DependsOn(id)) >= 2
        /\ DepValue(id, 1, "data") = Obj([a |-> 2, b |-> 1])
        /\ DepValue(id, 2, "data") = Obj([a |-> 0, b |-> 2])
        /\ input[id].f["data"] = Obj([a |-> 2, b |-> 2])

\* C11: a module called for a step that depends on two steps of one batch
\* gets, under a key both hold an array under, the items of its first
\* dependency followed by those of its second, in dependsOn order, whichever
\* of the two completed first.
C11_DependsOnOrderNotCompletionOrder ==
    \A id \in DOMAIN status :
        (Called(id) /\ Len(DependsOn(id)) = 2) =>
            \A key \in Keys :
                (DepValue(id, 1, key).k = "array" /\ DepValue(id, 2, key).k = "array") =>
                    /\ input[id].kind = "merged"
                    /\ input[id].f[key] = Arr(DepValue(id, 1, key).a \o DepValue(id, 2, key).a)

\* The second dependency completed first and holds other items than the
\* first.
C11_Witness ==
    /\ Called("C")
    /\ DependsOn("C") = <<"A", "B">>
    /\ order = <<"B", "A">>
    /\ result["A"].f["data"] = Arr(<<"p1", "p2">>)
    /\ result["B"].f["data"] = Arr(<<"p3">>)
    /\ input["C"].f["data"] = Arr(<<"p1", "p2", "p3">>)

C13_StatsAddUp ==
    /\ getStats.total = getStats.completed + getStats.running + getStats.pending
    /\ getStats.total >= 0 /\ getStats.completed >= 0
    /\ getStats.running >= 0 /\ getStats.pending >= 0
    /\ getStats.pending = Cardinality({id \in DOMAIN status : status[id] = "pending"})
    /\ getStats.running = Cardinality({id \in DOMAIN status : status[id] = "running"})
    /\ pc = "returned" =>
          getStats = [total |-> Len(steps), completed |-> Len(steps),
                      running |-> 0, pending |-> 0]

C13_Witness ==
    /\ getStats.completed = 1
    /\ getStats.running = 1
    /\ getStats.pending = 1

\* The places <<i, j>> of the returned levels that hold id.
PlacesOf(id) ==
    {p \in UNION {{<<i, j>> : j \in 1..Len(levels[i])} : i \in 1..Len(levels)} :
        levels[p[1]][p[2]] = id}

\* The ids the returned levels hold.
Levelled == UNION {Range(levels[i]) : i \in 1..Len(levels)}

\* 0 for a step with no dependency, else 1 + the largest depth of its
\* dependencies (for a list with no cycle and no unnamed dependency).
RECURSIVE Depth(_, _, _)
Depth(list, id, fuel) ==
    LET deps == Range(StepOf(list, id).dependsOn)
    IN IF deps = {} \/ fuel = 0 THEN 0
       ELSE LET ds == {Depth(list, d, fuel - 1) : d \in deps}
            IN 1 + CHOOSE m \in ds : \A n \in ds : n <= m

IsChain(list) ==
    \A i \in 1..Len(list) :
        list[i].dependsOn = IF i = 1 THEN <<>> ELSE <<list[i - 1].instanceId>>

IsIndependent(list) == \A i \in 1..Len(list) : list[i].dependsOn = <<>>

\* What C14 says of the returned levels.
LevelsPartition ==
    /\ Levelled = InstanceIds(steps)
    /\ \A id \in InstanceIds(steps) :
          /\ Cardinality(PlacesOf(id)) = 1
          /\ \A p \in PlacesOf(id) : p[1] - 1 = Depth(steps, id, Len(steps))
    /\ IsChain(steps) =>
          (Len(levels) = Len(steps) /\ \A i \in 1..Len(levels) : Len(levels[i]) = 1)
    /\ (IsIndependent(steps) /\ Len(steps) > 0) =>
          (Len(levels) = 1 /\ Len(levels[1]) = Len(steps))

\* C14 (as amended): for every step list whose dependsOn relation has no
\* cycle and names only steps of the list, analyzeParallelism returns levels
\* that hold each step exactly once, a step with no dependency in the first
\* level and any other step one level after the last of its dependencies;
\* a chain of N steps gives N levels of size 1 and N independent steps one
\* level of size N.
C14_LevelsPartitionSteps ==
    (analysis.pc = "returned" /\ ~HasCycle(steps) /\ AllDepsNamed(steps)) =>
        LevelsPartition

\* C14 as stated: no cycle in dependsOn is enough.
C14_Original ==
    (analysis.pc = "returned" /\ ~HasCycle(steps)) => LevelsPartition

C14_Witness ==
    /\ analysis.pc = "returned"
    /\ ~HasCycle(steps) /\ AllDepsNamed(steps)
    /\ Len(levels) = 2
    /\ Len(levels[1]) = 2
    /\ \E id \in InstanceIds(steps) : Len(StepOf(steps, id).dependsOn) = 2

\* C15: for every step list, the empty one and those whose every step is on
\* a cycle included, the returned maxParallelism is the size of the largest
\* returned level and independentPaths the size of the first, both 0 when
\* no level is returned.
C15_MaxAndFirstLevelSize ==
    analysis.pc = "returned" =>
        /\ IF levels = <<>> THEN analysis.maxParallelism = 0
           ELSE /\ \E i \in 1..Len(levels) : Len(levels[i]) = analysis.maxParallelism
                /\ \A i \in 1..Len(levels) : Len(levels[i]) <= analysis.maxParallelism
        /\ analysis.independentPaths = IF levels = <<>> THEN 0 ELSE Len(levels[1])

\* C16 (as amended): analyzeParallelism returns on every step list; when
\* dependsOn has a cycle the returned levels hold exactly the steps that are
\* not on a cycle, not downstream of one and not dependent on an id that
\* names no step, each exactly once.
C16_PartialLevelsOnCycle ==
    /\ <>(analysis.pc = "returned")
    /\ []((analysis.pc = "returned" /\ HasCycle(steps)) =>
             /\ Levelled = Unblocked(steps)
             /\ \A id \in Levelled : Cardinality(PlacesOf(id)) = 1 /\ ~BehindCycle(steps, id))
    /\ [][Cardinality(remaining') < Cardinality(remaining)
            \/ (analysis.pc = "loop" /\ analysis'.pc = "returned")]_vars

\* C16 as stated: the returned levels hold exactly the steps that are
\* neither on a cycle nor downstream of one.
C16_Original ==
    (analysis.pc = "returned" /\ HasCycle(steps)) =>
        Levelled = {id \in InstanceIds(steps) : ~BehindCycle(steps, id)}

C16_Witness ==
    /\ analysis.pc = "returned"
    /\ HasCycle(steps)
    /\ levels # <<>>
    /\ \E id \in InstanceIds(steps) : BehindCycle(steps, id) /\ ~OnCycle(steps, id)

\* validateWorkflow has returned or thrown.
Validated == validation.pc \in {"returned", "TypeError"}

\* Step i has a known module that declares io.
Declares(i) == Has(modules, steps[i].moduleId) /\ Get(modules, steps[i].moduleId).io.def

\* The required input dataTypes step i declares that no earlier step's
\* module outputs.
Unmet(i) ==
    IF ~Declares(i) THEN {}
    ELSE LET inputs == Get(modules, steps[i].moduleId).io.inputs
         IN {inputs[j].type : j \in {k \in 1..Len(inputs) :
                /\ inputs[k].required
                /\ ~ProvidedBefore(steps, modules, i, inputs[k].type)}}

ErrorKinds == {"Module not found", "Missing required input", "No previous step provides"}

\* C17: if a step's module declares a required input dataType T and no
\* earlier step of the list has a module that outputs T, validateWorkflow
\* returns a result that is not valid and holds an error naming T.
C17_UnmetRequiredInputIsError ==
    Validated =>
        \A i \in 1..Len(steps) : \A t \in Unmet(i) :
            /\ validation.pc = "returned"
            /\ ~validation.isValid
            /\ \E j \in 1..Len(validation.errors) :
                  validation.errors[j].step = i /\ validation.errors[j].type = t

\* C18: validateWorkflow is forward-only: an input no earlier step provides
\* is an error even when the step itself or a later step outputs it; and it
\* raises no false alarm: when every moduleId is known and every required
\* input of every step is output by an earlier step, it returns no error and
\* isValid is true.
C18_ForwardOnlyNoFalseAlarm ==
    Validated =>
        /\ validation.pc = "returned" =>
              \A i \in 1..Len(steps) : \A t \in Unmet(i) :
                  \E j \in 1..Len(validation.errors) :
                      validation.errors[j].step = i /\ validation.errors[j].type = t
        /\ ((\A i \in 1..Len(steps) : Has(modules, steps[i].moduleId) /\ Unmet(i) = {})) =>
              /\ validation.pc = "returned"
              /\ validation.errors = <<>>
              /\ validation.isValid

\* C19: a returned result is valid exactly when its errors list is empty;
\* the errors are the not-found, missing-required-input and
\* no-previous-step messages only, so a missing optional input and the
\* human-intervention suggestions, which are warnings, never make the
\* workflow invalid.
C19_ValidIffNoErrors ==
    validation.pc = "returned" =>
        /\ validation.isValid <=> validation.errors = <<>>
        /\ \A j \in 1..Len(validation.errors) : validation.errors[j].kind \in ErrorKinds
        /\ \A j \in 1..Len(validation.warnings) : validation.warnings[j].kind \notin ErrorKinds
        /\ (\A i \in 1..Len(steps) : Has(modules, steps[i].moduleId) /\ Unmet(i) = {}) =>
              validation.isValid

C19_Witness ==
    /\ validation.pc = "returned"
    /\ validation.isValid
    /\ \E j \in 1..Len(validation.warnings) : validation.warnings[j].kind = "Optional input"
    /\ \E j \in 1..Len(validation.warnings) :
          validation.warnings[j].kind = "Financial/communication modules detected"
    /\ \E j \in 1..Len(validation.warnings) : validation.warnings[j].kind = "Data gap detected"

\* C20: validateWorkflow never throws, whatever the step list and the
\* capability list: it returns a result, in which each step whose module is
\* unknown has exactly one error, the not-found one, and no warning of its
\* own.
C20_NeverThrows ==
    Validated =>
        /\ validation.pc = "returned"
        /\ \A i \in 1..Len(steps) :
              ~Has(modules, steps[i].moduleId) =>
                  /\ Cardinality({j \in 1..Len(validation.errors) :
                                     validation.errors[j].step = i}) = 1
                  /\ \E j \in 1..Len(validation.errors) :
                        validation.errors[j] = Message("Module not found", i, "")
                  /\ \A j \in 1..Len(validation.warnings) : validation.warnings[j].step # i

\* The inputs with a provider: <<i, j>> when step i declares an input j
\* whose dataType an earlier step's module outputs.
Provided ==
    {p \in (1..Len(steps)) \X (1..2) :
        /\ Declares(p[1])
        /\ p[2] <= Len(Get(modules, steps[p[1]].moduleId).io.inputs)
        /\ ProvidedBefore(steps, modules, p[1],
                          Get(modules, steps[p[1]].moduleId).io.inputs[p[2]].type)}

\* The place of p among the inputs with a provider, by step and then by
\* input.
PlaceOf(p) ==
    1 + Cardinality({q \in Provided : q[1] < p[1] \/ (q[1] = p[1] /\ q[2] < p[2])})

\* C21: generateSuggestedConnections emits a connection for a step's
\* declared input dataType T exactly when an earlier step's module outputs
\* T: one connection per such input and no other, from the module of an
\* earlier step that outputs T to the step's module, with confidence 0.9
\* for a required input and 0.6 otherwise.
C21_ConnectionPerProvidedInput ==
    Validated =>
        /\ Provided # {} => validation.pc = "returned"
        /\ validation.pc = "returned" =>
              /\ Len(validation.suggestedConnections) = Cardinality(Provided)
              /\ \A p \in Provided :
                    LET c == validation.suggestedConnections[PlaceOf(p)]
                        in == Get(modules, steps[p[1]].moduleId).io.inputs[p[2]]
                    IN /\ c.dataType = in.type
                       /\ c.toModule = steps[p[1]].moduleId
                       /\ \E k \in 1..(p[1] - 1) :
                             /\ steps[k].moduleId = c.fromModule
                             /\ in.type \in Outputs(steps, modules, k)
                       /\ c.confidence = IF in.required THEN 9 ELSE 6

\* Some dataType is among a's outputs and among b's inputs.
Intersects(a, b) ==
    \E i \in 1..Len(a.io.outputs), j \in 1..Len(b.io.inputs) :
        a.io.outputs[i] = b.io.inputs[j].type

\* category(a) -> category(b) is a transition of the lookup table.
Sanctioned(a, b) ==
    <<a.category, b.category>> \in
        {<<"data_collection", "processing">>, <<"processing", "communication">>,
         <<"processing", "analysis">>, <<"communication", "decision">>,
         <<"communication", "analysis">>, <<"decision", "analysis">>,
         <<"decision", "integration">>, <<"analysis", "integration">>}

\* C22 (as amended): getModuleCompatibility(a, b) reports compatible == true
\* only when a's output dataTypes intersect b's input dataTypes or
\* category(a) -> category(b) is a transition of the lookup table; and
\* whenever it returns, it reports true in each of these two cases.
C22_CompatibleByTypeOrCategory ==
    /\ compatibility.compatible => compatibility.pc = "returned"
    /\ compatibility.pc = "returned" =>
          (compatibility.compatible <=>
              (Intersects(compatibility.moduleA, compatibility.moduleB)
                  \/ Sanctioned(compatibility.moduleA, compatibility.moduleB)))

\* C22 as stated: compatible only when the outputs of a intersect the
\* inputs of b.
C22_Original ==
    (compatibility.pc = "returned" /\ compatibility.compatible) =>
        Intersects(compatibility.moduleA, compatibility.moduleB)

C22_Witness ==
    /\ compatibility.pc = "returned"
    /\ compatibility.compatible
    /\ Sanctioned(compatibility.moduleA, compatibility.moduleB)
    /\ ~Intersects(compatibility.moduleA, compatibility.moduleB)

\* The place of a category in the fixed order; 0 for a module without one.
CategoryRank(id) ==
    LET c == IF Has(modules, id) THEN Get(modules, id).category ELSE ""
    IN CASE c = "data_collection" -> 1
         [] c = "processing" -> 2
         [] c = "communication" -> 3
         [] c = "decision" -> 4
         [] c = "analysis" -> 5
         [] c = "integration" -> 6
         [] OTHER -> 0

\* How often id occurs in q.
Count(q, id) == Cardinality({i \in 1..Len(q) : q[i] = id})

\* q lists the places of a subsequence of the input that reads as the
\* returned ids of one category.
SameOrderWithin(rank) ==
    SelectSeq(optimal.order, LAMBDA id : CategoryRank(id) = rank)
        = SelectSeq(optimal.moduleIds, LAMBDA id : CategoryRank(id) = rank)

\* C23: suggestOptimalOrder returns the input moduleIds grouped by category
\* in the order data_collection, processing, communication, decision,
\* analysis, integration: the returned order holds every input id as often
\* as the input does, keeps the input order inside a category, and reasoning
\* has six strings.
C23_OrderIsGroupedPermutation ==
    optimal.pc \in {"returned", "TypeError"} =>
        /\ optimal.pc = "returned"
        /\ Len(optimal.reasoning) = 6
        /\ \A id \in ModuleIds : Count(optimal.order, id) = Count(optimal.moduleIds, id)
        /\ \A i, j \in 1..Len(optimal.order) :
              i < j => CategoryRank(optimal.order[i]) <= CategoryRank(optimal.order[j])
        /\ \A rank \in 1..6 : SameOrderWithin(rank)

\* The k-th step of the list q is a high-risk step with no human-decision
\* step right before it.
LacksApproval(q, k) ==
    /\ q[k].moduleId \in {"quotation", "discount-pricing", "email-interact"}
    /\ ~(k > 1 /\ q[k - 1].moduleId = "human-decision")

\* C24: if validateWorkflow(steps) is valid, autoFixWorkflowWithHumanModules
\* returns fixedSteps equal to steps and no change, also when a high-risk
\* step has no approval before it or the workflow ends with an analysis
\* step.
C24_ValidLeftUnchanged ==
    (validation.pc = "returned" /\ validation.isValid) =>
        /\ autofix.pc = "returned"
        /\ autofix.fixedSteps = steps
        /\ autofix.changes = <<>>

C24_Witness ==
    /\ autofix.pc = "returned"
    /\ validation.isValid
    /\ \E k \in 1..Len(steps) : LacksApproval(steps, k)
    /\ Len(steps) > 0
    /\ CategoryOf(steps, modules, Len(steps)) = "analysis"

\* autoFixWorkflowWithHumanModules has returned or thrown.
Fixed == autofix.pc \in {"returned", "TypeError"}

\* The validation reports an error about missing data.
ReportsMissingData ==
    /\ validation.pc = "returned"
    /\ \E j \in 1..Len(validation.errors) :
          validation.errors[j].kind \in {"Missing required input", "No previous step provides"}

\* C25: if the validation reports at least one 'Missing required input' or
\* 'No previous step provides' error, autoFixWorkflowWithHumanModules puts
\* exactly one human-manual-input step in front, however many inputs are
\* missing; and for a workflow whose first step requires an unmet input,
\* fixedSteps is longer than steps and begins with that synthetic step.
C25_OneManualInputPrepended ==
    Fixed =>
        /\ ReportsMissingData =>
              /\ autofix.pc = "returned"
              /\ autofix.fixedSteps[1] = manualInputStep
              /\ Count([i \in 1..Len(autofix.fixedSteps) |-> autofix.fixedSteps[i].moduleId],
                       "human-manual-input")
                    = 1 + Count([i \in 1..Len(steps) |-> steps[i].moduleId],
                                "human-manual-input")
        /\ (Len(steps) > 0 /\ Unmet(1) # {}) =>
              /\ autofix.pc = "returned"
              /\ Len(autofix.fixedSteps) > Len(steps)
              /\ autofix.fixedSteps[1] = manualInputStep

\* The change notes of approval checkpoints.
Checkpoints ==
    {j \in 1..Len(autofix.changes) :
        autofix.changes[j].kind = "Added Human Decision approval checkpoint"}

\* The human-decision steps of fixedSteps that the scan spliced in.
Spliced ==
    {k \in 1..Len(autofix.fixedSteps) :
        \E i \in 0..Len(autofix.fixedSteps) : autofix.fixedSteps[k] = decisionStep(i)}

\* C26: for an invalid workflow, every quotation, discount-pricing or
\* email-interact step of the returned fixedSteps has a human-decision step
\* right before it; one approval step is inserted, right before it, for
\* each high-risk step of the workflow that had none, and none for a step
\* that had one; the scan ends.
C26_RiskStepsGetApproval ==
    (validation.pc = "returned" /\ ~validation.isValid) =>
        /\ autofix.pc = "returned"
        /\ \A k \in 1..Len(autofix.fixedSteps) :
              autofix.fixedSteps[k].moduleId \in {"quotation", "discount-pricing", "email-interact"}
                  => ~LacksApproval(autofix.fixedSteps, k)
        /\ Cardinality(Spliced) = Cardinality({k \in 1..Len(steps) : LacksApproval(steps, k)})
        /\ Cardinality(Checkpoints) = Cardinality(Spliced)
        /\ \A k \in Spliced :
              /\ k < Len(autofix.fixedSteps)
              /\ autofix.fixedSteps[k + 1].moduleId
                    \in {"quotation", "discount-pricing", "email-interact"}
              /\ ~(k > 1 /\ autofix.fixedSteps[k - 1].moduleId = "human-decision")

C26_Witness ==
    /\ autofix.pc = "returned"
    /\ ~validation.isValid
    /\ \E k \in 1..Len(steps) : LacksApproval(steps, k)
    /\ \E k \in 1..Len(steps) : steps[k].moduleId = "quotation" /\ ~LacksApproval(steps, k)
    /\ Cardinality(Spliced) = 1
    /\ autofix.fixedSteps[1] = manualInputStep

\* C27: in every state of a run completed and running are disjoint, a node
\* is running exactly when its instanceId is in running, completed or
\* failed exactly when it is in completed, and pending exactly when it is in
\* neither set.
C27_SetsMatchStatus ==
    /\ completed \cap running = {}
    /\ completed \cup running \subseteq DOMAIN status
    /\ \A id \in DOMAIN status :
          /\ status[id] = "running" <=> id \in running
          /\ status[id] \in {"completed", "failed"} <=> id \in completed
          /\ status[id] = "pending" <=> id \notin completed \cup running

C27_Witness ==
    /\ \E id \in DOMAIN status : status[id] = "running" /\ at[id] = "executeModule"
    /\ \E id \in DOMAIN status : status[id] = "failed"
    /\ \E id \in DOMAIN status : status[id] = "completed"

\* C28: every time execute() computes the ready set running is empty, so
\* the steps that run at one time are of one batch, and the branch that
\* waits 100 ms because nothing is ready while a step runs is never taken.
C28_BatchBarrier ==
    /\ [](pc # "sleep" /\ running \subseteq batch)
    /\ [][(pc' # pc \/ batch' # batch \/ launched' # launched) => running = {}]_vars

C28_Witness ==
    /\ pc = "awaitAll"
    /\ running # {}
    /\ Len(launched) = 1
    /\ \E id \in batch : at[id] = "settled"
    /\ \E id \in DOMAIN status :
          /\ status[id] = "pending"
          /\ DependsOn(id) # <<>>
          /\ \A i \in 1..Len(DependsOn(id)) : DependsOn(id)[i] \in completed

\* C29: the batches execute() launches are, in order, the levels
\* analyzeParallelism reports on the same list: the k-th batch holds the ids
\* of the k-th level, and when execute() returns or raises the deadlock
\* error it has launched as many batches as there are levels.
C29_BatchesAreLevels ==
    /\ [](Ended => Len(launched) = Len(analyzeParallelism(steps)))
    /\ [][launched' # launched =>
            /\ Len(launched') <= Len(analyzeParallelism(steps))
            /\ launched'[Len(launched')] = Range(analyzeParallelism(steps)[Len(launched')])]_vars

C29_Witness ==
    /\ pc = "returned"
    /\ Len(launched) = 2
    /\ Cardinality(launched[1]) = 2
    /\ \E id \in launched[1] : status[id] = "failed"
    /\ <<launched[1], launched[2]>> = <<Range(analyzeParallelism(steps)[1]),
                                        Range(analyzeParallelism(steps)[2])>>

\* Some module call of the run hangs.
Hung == \E id \in DOMAIN at : at[id] = "hung"

\* C30: once a module call of a batch hangs, execute() stays in the
\* Promise.all of that batch: it never returns and never throws, it launches
\* no further batch, so no step that is not started is ever started, whether
\* it depends on the hung step or not, and nothing ends the hung call.
C30_HungCallStallsRun ==
    /\ [](Hung => pc = "awaitAll")
    /\ [][Hung =>
            /\ pc' = "awaitAll"
            /\ batch' = batch
            /\ launched' = launched
            /\ \A id \in DOMAIN at :
                  /\ at[id] = "hung" => at'[id] = "hung"
                  /\ at[id] = "none" => at'[id] = "none" /\ status'[id] = "pending"]_vars

C30_Witness ==
    /\ Hung
    /\ \A id \in batch : at[id] \in {"hung", "settled"}
    /\ \E id \in batch : at[id] = "settled"
    /\ \E id \in DOMAIN at :
          /\ at[id] = "none"
          /\ DependsOn(id) # <<>>
          /\ \A i \in 1..Len(DependsOn(id)) : DependsOn(id)[i] \in completed

\* The steps of the list whose module the capability list holds, in order.
KnownSteps == SelectSeq([i \in 1..Len(steps) |-> i], LAMBDA i : Has(modules, steps[i].moduleId))

\* The declared inputs of step i that are required or that an earlier
\* step's module provides.
ListedInputs(i) ==
    SelectSeq(Get(modules, steps[i].moduleId).io.inputs,
              LAMBDA in : in.required \/ ProvidedBefore(steps, modules, i, in.type))

\* C31 (as amended): in every result validateWorkflow returns,
\* dependencyGraph has exactly one entry, in step order, per step whose
\* module is in the capability list, and the entry's dependencies list has
\* exactly one item per declared input that is required or that an earlier
\* step provides: 'Missing required input: T' when no earlier step outputs
\* T, 'T from step k' otherwise.
C31_EntryPerKnownStep ==
    validation.pc = "returned" =>
        /\ Len(validation.dependencyGraph) = Len(KnownSteps)
        /\ \A n \in 1..Len(KnownSteps) :
              LET entry == validation.dependencyGraph[n]
                  listed == ListedInputs(KnownSteps[n])
              IN /\ entry.level = KnownSteps[n] - 1
                 /\ entry.moduleId = steps[KnownSteps[n]].moduleId
                 /\ Len(entry.dependencies) = Len(listed)
                 /\ \A j \in 1..Len(listed) :
                       /\ entry.dependencies[j].type = listed[j].type
                       /\ entry.dependencies[j].kind =
                             IF ProvidedBefore(steps, modules, KnownSteps[n], listed[j].type)
                             THEN "from step" ELSE "Missing required input"

\* C31 as stated: one entry per step of the list and one item per declared
\* input.
C31_Original ==
    validation.pc = "returned" =>
        /\ Len(validation.dependencyGraph) = Len(steps)
        /\ \A n \in 1..Len(validation.dependencyGraph) :
              /\ Has(modules, steps[n].moduleId)
              /\ Len(validation.dependencyGraph[n].dependencies)
                    = Len(Get(modules, steps[n].moduleId).io.inputs)

C31_Witness ==
    /\ validation.pc = "returned"
    /\ Len(validation.dependencyGraph) = 2
    /\ Len(steps) = 3
    /\ \E n \in 1..2 :
          /\ Len(validation.dependencyGraph[n].dependencies) = 1
          /\ validation.dependencyGraph[n].dependencies[1].kind = "from step"
          /\ validation.dependencyGraph[n].moduleId = "quotation"

\* C32: an item 'T from step k' of dependencyGraph names the latest step
\* before the entry's own whose module outputs T, and k is below the
\* entry's index.
C32_LatestProviderNamed ==
    validation.pc = "returned" =>
        \A n \in 1..Len(validation.dependencyGraph) :
            LET entry == validation.dependencyGraph[n]
            IN \A j \in 1..Len(entry.dependencies) :
                  entry.dependencies[j].kind = "from step" =>
                      LET k == entry.dependencies[j].step
                          t == entry.dependencies[j].type
                      IN /\ 0 <= k /\ k < entry.level
                         /\ t \in Outputs(steps, modules, k + 1)
                         /\ \A m \in (k + 2)..entry.level : t \notin Outputs(steps, modules, m)

C32_Witness ==
    /\ validation.pc = "returned"
    /\ \E n \in 1..Len(validation.dependencyGraph) :
          LET entry == validation.dependencyGraph[n]
          IN \E j \in 1..Len(entry.dependencies) :
                /\ entry.dependencies[j].kind = "from step"
                /\ entry.dependencies[j].step = 1
                /\ entry.dependencies[j].type \in Outputs(steps, modules, 1)

\* The dataTypes among a's outputs that also appear among b's inputs.
Shared(a, b) ==
    {a.io.outputs[i] : i \in 1..Len(a.io.outputs)}
        \cap {b.io.inputs[j].type : j \in 1..Len(b.io.inputs)}

\* C33: getModuleCompatibility(a, b) returns score = 0.3 times the number of
\* a's output dataTypes that also appear among b's inputs, plus 0.4 when
\* (category(a), category(b)) is in the transition table, and compatible ==
\* (score > 0.2); so compatible holds exactly when a dataType is shared or
\* the category transition is sanctioned, and no transition out of
\* integration earns the bonus.  Scores are in tenths.
C33_ScoreFormula ==
    compatibility.pc = "returned" =>
        LET a == compatibility.moduleA
            b == compatibility.moduleB
            shared == Cardinality(Shared(a, b))
        IN /\ compatibility.score = 3 * shared + (IF Sanctioned(a, b) THEN 4 ELSE 0)
           /\ compatibility.compatible = (compatibility.score > 2)
           /\ compatibility.compatible <=> (shared >= 1 \/ Sanctioned(a, b))
           /\ a.category = "integration" => compatibility.score = 3 * shared

C33_Witness ==
    /\ compatibility.pc = "returned"
    /\ compatibility.moduleA.category = "integration"
    /\ compatibility.moduleB.category \in {"analysis", "processing", "decision"}
    /\ compatibility.score = 0
    /\ ~compatibility.compatible

\* The moves node.status may make in one step.
StatusMoves ==
    {<<"pending", "running">>, <<"running", "completed">>, <<"running", "failed">>}

\* C34: in every run of execute() a node's status only moves pending to
\* running to completed or failed, never out of completed or failed and
\* never back to pending; graph.completed only grows; and each step's
\* module is invoked at most once.
C34_StatusOnlyAdvances ==
    [][/\ \A id \in DOMAIN status :
             status'[id] # status[id] => <<status[id], status'[id]>> \in StatusMoves
       /\ completed \subseteq completed'
       /\ \A id \in DOMAIN at :
             /\ (at'[id] = "getById" /\ at[id] # "getById") => at[id] = "none"
             /\ (at'[id] = "executeModule" /\ at[id] # "executeModule") =>
                   (at[id] = "getById" /\ ~Called(id))]_vars

C34_Witness ==
    /\ pc = "returned"
    /\ \E a \in DOMAIN status, b \in DOMAIN status :
          /\ status[a] = "failed" /\ Called(a)
          /\ status[b] = "completed" /\ Called(b)
          /\ a \in Range(DependsOn(b))

\* How many errors of the returned result are of this kind for step i
\* (counted from 1) and dataType t.
Flagged(kind, i, t) ==
    Cardinality({j \in 1..Len(validation.errors) :
                    validation.errors[j] = Message(kind, i, t)})

\* How many required inputs of dataType t step i declares.
RequiredInputs(i, t) ==
    IF ~Declares(i) THEN 0
    ELSE LET inputs == Get(modules, steps[i].moduleId).io.inputs
         IN Cardinality({j \in 1..Len(inputs) : inputs[j].required /\ inputs[j].type = t})

\* C35: validateDataFlow and checkMissingDependencies flag the same (step,
\* required input dataType) pairs: in a returned result every missing
\* required input has exactly one 'Missing required input' error and one
\* 'No previous step provides' error, and neither kind appears for a pair
\* without the other.
C35_BothPassesFlagSamePairs ==
    validation.pc = "returned" =>
        \A i \in 1..Len(steps) : \A t \in DataTypes :
            /\ Flagged("Missing required input", i, t) = Flagged("No previous step provides", i, t)
            /\ Flagged("Missing required input", i, t) =
                  (IF t \in Unmet(i) THEN RequiredInputs(i, t) ELSE 0)

C35_Witness ==
    /\ validation.pc = "returned"
    /\ \E i \in 2..Len(steps) : \E t \in DataTypes :
          /\ Flagged("Missing required input", i, t) = 1
          /\ Flagged("No previous step provides", i, t) = 1
          /\ t \in Outputs(steps, modules, i)
    /\ \E i \in 1..Len(steps) : Declares(i) /\ Unmet(i) = {}
                                   /\ \E t \in DataTypes : RequiredInputs(i, t) > 0

\* The steps autoFixWorkflowWithHumanModules makes up.
Synthetic ==
    {manualInputStep, finalDecisionStep} \cup {decisionStep(i) : i \in 0..(2 * MaxFlow + 2)}

\* fixed holds the steps of list in their order, every other element of it
\* is a synthetic human-manual-input or human-decision step, and it is
\* longer than list by one step per change note.
KeepsSteps(list, fixed) ==
    /\ SelectSeq(fixed.fixedSteps, LAMBDA s : s \notin Synthetic) = list
    /\ \A k \in 1..Len(fixed.fixedSteps) :
          fixed.fixedSteps[k] \in Synthetic =>
              fixed.fixedSteps[k].moduleId \in {"human-manual-input", "human-decision"}
    /\ Len(fixed.fixedSteps) = Len(list) + Len(fixed.changes)

\* C36: autoFixWorkflowWithHumanModules never removes, reorders or alters
\* the caller's steps and does not mutate the input list: when it returns,
\* the caller's list is what it was, its steps are in fixedSteps in their
\* original order, every other element of fixedSteps is a synthetic
\* human-manual-input or human-decision step, and fixedSteps.length ==
\* steps.length + changes.length.
C36_CallerStepsKept ==
    [][(autofix.pc = "called" /\ autofix'.pc = "returned") =>
          /\ steps' = steps
          /\ KeepsSteps(steps, autofix')]_vars

C36_Witness ==
    /\ autofix.pc = "returned"
    /\ Len(autofix.changes) = 3
    /\ Len(autofix.fixedSteps) = Len(steps) + 3
    /\ autofix.fixedSteps[1] = manualInputStep
    /\ autofix.fixedSteps[Len(autofix.fixedSteps)] = finalDecisionStep
    /\ \E k \in 1..Len(steps) : steps[k].moduleId = "human-decision"

RecordInStep ==
    LET index == execution.currentStepIndex
    IN /\ execution.exists
       /\ DOMAIN execution.results = 0..(index - 1)
       /\ execution.status = "completed" <=> (index >= 1 /\ index = Len(stored.steps))
       /\ execution.status \in {"pending", "running", "completed"}

\* Request r answers in this step.
Answers(r) == requests[r].pc # "responded" /\ requests'[r].pc = "responded"

\* What one handled request does to the record.
RequestInStep(r) ==
    LET index == execution.currentStepIndex
        noStep == index >= Len(stored.steps)
        unknown == ~noStep /\ stored.steps[index + 1].moduleId = UnknownModule
    IN /\ (Answers(r) /\ requests'[r].response = 200) =>
              /\ ~noStep /\ ~unknown
              /\ invoked = [j \in 1..(index + 1) |-> j - 1]
              /\ execution'.currentStepIndex = index + 1
              /\ DOMAIN execution'.results = (DOMAIN execution.results) \cup {index}
              /\ \A k \in DOMAIN execution.results : execution'.results[k] = execution.results[k]
              /\ execution'.results[index].moduleId = stored.steps[index + 1].moduleId
              /\ execution'.results[index].status \in {"completed", "error"}
       /\ (Answers(r) /\ (noStep \/ unknown)) =>
              /\ requests'[r].response = (IF noStep THEN 400 ELSE 404)
              /\ execution' = execution
              /\ invoked' = invoked
       /\ (Answers(r) /\ requests'[r].response # 200) => (noStep \/ unknown)

\* C38: for an execution record driven by step requests that do not
\* overlap, each successful request runs exactly the step at
\* currentStepIndex, stores its result (or the error record of a module
\* call that threw) under that index and adds 1 to currentStepIndex;
\* results has exactly the keys 0..currentStepIndex-1; status is completed
\* exactly when currentStepIndex has reached the number of steps after at
\* least one step; and a request made when no step remains, or whose module
\* is unknown, answers with an error and leaves the record as it is.
C38_OneStepPerRequest ==
    /\ []RecordInStep
    /\ [][/\ \A r \in Requests : RequestInStep(r)
          /\ execution' # execution =>
                \E r \in Requests : Answers(r) /\ requests'[r].response = 200]_vars

C38_Witness ==
    /\ execution.status = "completed"
    /\ execution.currentStepIndex = 3
    /\ execution.results[1].status = "error"
    /\ execution.results[2].status = "completed"
    /\ \E r \in Requests : requests[r].response = 400
    /\ invoked = <<0, 1, 2>>

\* Every step the requests have called so far was called once and in index
\* order, none skipped.
CalledOnceInOrder == \A j \in 1..Len(invoked) : invoked[j] = j - 1

\* C39: when step requests for one execution overlap, every workflow step
\* is still executed exactly once and in index order: no step's module is
\* called twice, no step is skipped, and currentStepIndex advances by one
\* per handled request.
C39_OverlapRunsEachStepOnce ==
    /\ []CalledOnceInOrder
    /\ [][\A r \in Requests :
             (Answers(r) /\ requests'[r].response = 200) =>
                 execution'.currentStepIndex = execution.currentStepIndex + 1]_vars

====
